---- MODULE Spec2Model ----
(***************************************************************************)
(* Three-way sync core of the saved-places manager: ChangeDetector,        *)
(* Merger, the repositories they use, and the SyncOrchestrator run.        *)
(***************************************************************************)
EXTENDS Integers, Sequences, FiniteSets, TLC

VARIABLES
    db,            \* the Database object: places, lists, placeLists, lastRemoteState, pendingOperations, syncLog
    phase,         \* position of the running quickSync()/deepSync(), "idle" when none runs
    syncType,      \* "quick" | "deep"
    dryRun,        \* SyncOrchestrator.dryRun
    syncId,        \* id returned by startSync
    listNames,     \* result of scraper.getListNames()
    cursor,        \* index of the loop of the current phase
    remoteState,   \* sequence of <<listName, places>> in insertion order
    failedLists,   \* sequence of list names
    stats,         \* the stats object of the run
    allChanges,    \* { notesChanges, associationChanges, conflicts }
    mergeResult,   \* { applied, conflicts }
    change,        \* the decision last handed to the Merger and whether applying it threw
    thrown,        \* TRUE when the run ended by throwing to its caller
    runs,          \* number of runs started
    edits,         \* number of local edits made
    probe          \* a single detector call: its arguments and its result

vars == <<db, phase, syncType, dryRun, syncId, listNames, cursor, remoteState,
          failedLists, stats, allChanges, mergeResult, change, thrown, runs, edits, probe>>

runVars == <<phase, syncType, dryRun, syncId, listNames, cursor, remoteState,
             failedLists, stats, allChanges, mergeResult, change, thrown, runs>>

----------------------------------------------------------------------------
(* Bounds *)
MaxRuns == 2
MaxEdits == 1

(* Values *)
NULL == "<null>"
NotesValues == {NULL, "", "a", "b"}
(* notes the scraper reads, `notesElement ? notesElement.value.trim() : null`:
   the notes field as scraped, empty or filled *)
RemoteNotes == {"", "a"}
(* notes a local edit writes *)
EditedNotes == {NULL, "b"}
PlaceIds == {1}
ListIds == {1, 2}
ListName == [i \in ListIds |-> IF i = 1 THEN "A" ELSE "B"]
GooglePlaceId == [p \in PlaceIds |-> IF p = 1 THEN "g1" ELSE "g2"]

----------------------------------------------------------------------------
(* crypto.createHash('sha256').update(s).digest('hex'): injective on the texts used *)
sha256(s) == "sha256:" \o s

(* ChangeDetector.hash *)
hash(value) == IF value = NULL THEN NULL ELSE sha256(value)

(* PlacesRepository.hashNotes: `!notes` is true for null and for the empty string *)
hashNotes(notes) == IF notes = NULL \/ notes = "" THEN NULL ELSE sha256(notes)

----------------------------------------------------------------------------
(* LastRemoteStateRepository *)

EntityKey(entityType, entityId) == [entity_type |-> entityType, entity_id |-> entityId]

(* `place_${placeId}` and `place_${placeId}_list_${listId}` *)
PlaceNotesId(placeId) == <<"place", placeId>>
PlaceListId(placeId, listId) == <<"place", placeId, "list", listId>>

(* find: the state_hash of the row, NULL when there is no row *)
find(d, entityType, entityId) ==
    IF EntityKey(entityType, entityId) \in DOMAIN d.lastRemoteState
    THEN d.lastRemoteState[EntityKey(entityType, entityId)]
    ELSE NULL

getPlaceNotes(d, placeId) == find(d, "place_notes", PlaceNotesId(placeId))

getPlaceListAssociation(d, placeId, listId) ==
    find(d, "place_list_association", PlaceListId(placeId, listId))

----------------------------------------------------------------------------
(* ChangeDetector *)

NoDecision == [type |-> "null"]

NotesDecision(type, placeId, localNotes, remoteNotes, baseHash, resolution) ==
    [type |-> type, entity |-> "place_notes", placeId |-> placeId,
     localValue |-> localNotes, remoteValue |-> remoteNotes,
     baseValue |-> baseHash, resolution |-> resolution]

(* detectPlaceNotesChange with a missing Base row taken to mean "nothing to compare" *)
detectPlaceNotesChange_skipNullBase(d, placeId, localNotes, remoteNotes) ==
    LET baseHash == getPlaceNotes(d, placeId)
        localHash == hash(localNotes)
        remoteHash == hash(remoteNotes)
    IN  IF baseHash = NULL \/ (localHash = remoteHash /\ localHash = baseHash) THEN NoDecision
        ELSE IF localHash # baseHash /\ remoteHash = baseHash
        THEN NotesDecision("local_change", placeId, localNotes, remoteNotes, baseHash, "keep_local")
        ELSE IF remoteHash # baseHash /\ localHash = baseHash
        THEN NotesDecision("remote_change", placeId, localNotes, remoteNotes, baseHash, "take_remote")
        ELSE IF localHash # remoteHash
        THEN NotesDecision("conflict", placeId, localNotes, remoteNotes, baseHash, "local_wins")
        ELSE NotesDecision("synchronized", placeId, localNotes, remoteNotes, baseHash, "already_synced")

detectPlaceNotesChange(d, placeId, localNotes, remoteNotes) ==
    LET baseHash == getPlaceNotes(d, placeId)
        localHash == hash(localNotes)
        remoteHash == hash(remoteNotes)
    IN  IF localHash = remoteHash /\ localHash = baseHash THEN NoDecision
        ELSE IF localHash # baseHash /\ remoteHash = baseHash
        THEN NotesDecision("local_change", placeId, localNotes, remoteNotes, baseHash, "keep_local")
        ELSE IF remoteHash # baseHash /\ localHash = baseHash
        THEN NotesDecision("remote_change", placeId, localNotes, remoteNotes, baseHash, "take_remote")
        ELSE IF localHash # baseHash /\ remoteHash # baseHash /\ localHash # remoteHash
        THEN NotesDecision("conflict", placeId, localNotes, remoteNotes, baseHash, "local_wins")
        ELSE IF localHash = remoteHash /\ localHash # baseHash
        THEN NotesDecision("synchronized", placeId, localNotes, remoteNotes, baseHash, "already_synced")
        ELSE NoDecision

AssocDecision(type, placeId, listId, existsLocal, existsRemote, existedInBase, resolution) ==
    [type |-> type, entity |-> "place_list", placeId |-> placeId, listId |-> listId,
     existsLocal |-> existsLocal, existsRemote |-> existsRemote,
     existedInBase |-> existedInBase, resolution |-> resolution]

(* detectPlaceListChange with the conflict tests placed before the remote-side tests *)
detectPlaceListChange_conflictFirst(d, placeId, listId, existsLocal, existsRemote) ==
    LET baseState == getPlaceListAssociation(d, placeId, listId)
        existedInBase == (baseState = "exists")
        D(type, resolution) ==
            AssocDecision(type, placeId, listId, existsLocal, existsRemote, existedInBase, resolution)
    IN  IF existsLocal = existsRemote /\ existsLocal = existedInBase THEN NoDecision
        ELSE IF existsLocal /\ ~existsRemote /\ ~existedInBase THEN D("local_add", "push_add")
        ELSE IF existsLocal /\ ~existsRemote /\ existedInBase THEN D("conflict", "local_wins")
        ELSE IF ~existsLocal /\ existsRemote /\ existedInBase THEN D("conflict", "local_wins")
        ELSE IF existsRemote /\ ~existsLocal /\ ~existedInBase THEN D("remote_add", "add_locally")
        ELSE NoDecision

(* detectPlaceListChange whose push_remove decision does not carry the three flags *)
detectPlaceListChange_bareRemove(d, placeId, listId, existsLocal, existsRemote) ==
    LET baseState == getPlaceListAssociation(d, placeId, listId)
        existedInBase == (baseState = "exists")
        D(type, resolution) ==
            AssocDecision(type, placeId, listId, existsLocal, existsRemote, existedInBase, resolution)
    IN  IF existsLocal = existsRemote /\ existsLocal = existedInBase THEN NoDecision
        ELSE IF existsLocal /\ ~existsRemote /\ ~existedInBase THEN D("local_add", "push_add")
        ELSE IF ~existsLocal /\ existsRemote /\ existedInBase
        THEN [type |-> "local_remove", entity |-> "place_list", placeId |-> placeId,
              listId |-> listId, resolution |-> "push_remove"]
        ELSE IF existsRemote /\ ~existsLocal /\ ~existedInBase THEN D("remote_add", "add_locally")
        ELSE IF ~existsRemote /\ existsLocal /\ existedInBase THEN D("remote_remove", "remove_locally")
        ELSE IF existsLocal /\ ~existsRemote /\ existedInBase THEN D("conflict", "local_wins")
        ELSE NoDecision

(* detectPlaceListChange without the local_remove test *)
detectPlaceListChange_noLocalRemove(d, placeId, listId, existsLocal, existsRemote) ==
    LET baseState == getPlaceListAssociation(d, placeId, listId)
        existedInBase == (baseState = "exists")
        D(type, resolution) ==
            AssocDecision(type, placeId, listId, existsLocal, existsRemote, existedInBase, resolution)
    IN  IF existsLocal = existsRemote /\ existsLocal = existedInBase THEN NoDecision
        ELSE IF existsLocal /\ ~existsRemote /\ ~existedInBase THEN D("local_add", "push_add")
        ELSE IF existsRemote /\ ~existsLocal /\ ~existedInBase THEN D("remote_add", "add_locally")
        ELSE IF ~existsRemote /\ existsLocal /\ existedInBase THEN D("remote_remove", "remove_locally")
        ELSE IF existsLocal /\ ~existsRemote /\ existedInBase THEN D("conflict", "local_wins")
        ELSE IF ~existsLocal /\ existsRemote /\ existedInBase THEN D("conflict", "local_wins")
        ELSE NoDecision

detectPlaceListChange(d, placeId, listId, existsLocal, existsRemote) ==
    LET baseState == getPlaceListAssociation(d, placeId, listId)
        existedInBase == (baseState = "exists")
        D(type, resolution) ==
            AssocDecision(type, placeId, listId, existsLocal, existsRemote, existedInBase, resolution)
    IN  IF existsLocal = existsRemote /\ existsLocal = existedInBase THEN NoDecision
        ELSE IF existsLocal /\ ~existsRemote /\ ~existedInBase THEN D("local_add", "push_add")
        ELSE IF ~existsLocal /\ existsRemote /\ existedInBase THEN D("local_remove", "push_remove")
        ELSE IF existsRemote /\ ~existsLocal /\ ~existedInBase THEN D("remote_add", "add_locally")
        ELSE IF ~existsRemote /\ existsLocal /\ existedInBase THEN D("remote_remove", "remove_locally")
        ELSE IF existsLocal /\ ~existsRemote /\ existedInBase THEN D("conflict", "local_wins")
        ELSE IF ~existsLocal /\ existsRemote /\ existedInBase THEN D("conflict", "local_wins")
        ELSE NoDecision


----------------------------------------------------------------------------
(* Results of a call that may throw: the database as the call left it *)
Ok(d) == [db |-> d, threw |-> FALSE]
Threw(d) == [db |-> d, threw |-> TRUE]

(* Ascending sequence of a finite set of integers *)
RECURSIVE SortedSeq(_)
SortedSeq(S) ==
    IF S = {} THEN <<>>
    ELSE LET m == CHOOSE x \in S : \A y \in S : x <= y
         IN  <<m>> \o SortedSeq(S \ {m})

RECURSIVE Flatten(_)
Flatten(ss) == IF ss = <<>> THEN <<>> ELSE Head(ss) \o Flatten(Tail(ss))

(* LastRemoteStateRepository.upsert: state_hash is declared NOT NULL, so a  *)
(* null hash makes the statement fail and nothing is written               *)
upsert(d, entityType, entityId, stateHash) ==
    IF stateHash = NULL THEN Threw(d)
    ELSE Ok([d EXCEPT !.lastRemoteState =
                [k \in DOMAIN d.lastRemoteState \cup {EntityKey(entityType, entityId)} |->
                    IF k = EntityKey(entityType, entityId) THEN stateHash
                    ELSE d.lastRemoteState[k]]])

savePlaceNotes(d, placeId, notesHash) ==
    upsert(d, "place_notes", PlaceNotesId(placeId), notesHash)

savePlaceListAssociation(d, placeId, listId, exists) ==
    upsert(d, "place_list_association", PlaceListId(placeId, listId),
           IF exists THEN "exists" ELSE "not_exists")

(* PlacesRepository *)
NoRow == [missing |-> TRUE]

findById(d, id) == IF id \in DOMAIN d.places THEN d.places[id] ELSE NoRow

findByGoogleId(d, googlePlaceId) ==
    IF \E id \in DOMAIN d.places : d.places[id].google_place_id = googlePlaceId
    THEN CHOOSE id \in DOMAIN d.places : d.places[id].google_place_id = googlePlaceId
    ELSE 0

(* PlacesRepository.upsert: INSERT ... ON CONFLICT(google_place_id) DO UPDATE; the
   hash is computed from the notes being written *)
Places_upsert(d, place) ==
    LET id == findByGoogleId(d, place.google_place_id)
        notesHash == hashNotes(place.notes)
    IN  IF id # 0
        THEN [d EXCEPT !.places[id].notes = place.notes,
                       !.places[id].notes_hash = notesHash,
                       !.places[id].is_deleted = FALSE]
        ELSE [d EXCEPT !.places =
                [i \in DOMAIN d.places \cup {Cardinality(DOMAIN d.places) + 1} |->
                    IF i \in DOMAIN d.places THEN d.places[i]
                    ELSE [google_place_id |-> place.google_place_id, notes |-> place.notes,
                          notes_hash |-> notesHash, is_deleted |-> FALSE]]]

(* updateNotes that writes the notes column only *)
updateNotes_keepsHash(d, id, notes) ==
    IF id \in DOMAIN d.places
    THEN [d EXCEPT !.places[id].notes = notes]
    ELSE d

updateNotes(d, id, notes) ==
    IF id \in DOMAIN d.places
    THEN [d EXCEPT !.places[id].notes = notes, !.places[id].notes_hash = hashNotes(notes)]
    ELSE d

(* ListsRepository.findByGoogleId: the id of the list, 0 when there is none *)
Lists_findByGoogleId(d, googleListId) ==
    IF \E id \in DOMAIN d.lists : d.lists[id].google_list_id = googleListId
    THEN CHOOSE id \in DOMAIN d.lists : d.lists[id].google_list_id = googleListId
    ELSE 0

(* ListsRepository.findByName: the id of the list, 0 when there is none *)
findByName(d, name) ==
    IF \E id \in DOMAIN d.lists : d.lists[id].name = name
    THEN CHOOSE id \in DOMAIN d.lists : d.lists[id].name = name
    ELSE 0

(* INSERT INTO lists: the next rowid *)
InsertList(d, googleListId, name) ==
    [d EXCEPT !.lists =
        [i \in DOMAIN d.lists \cup {Cardinality(DOMAIN d.lists) + 1} |->
            IF i \in DOMAIN d.lists THEN d.lists[i]
            ELSE [google_list_id |-> googleListId, name |-> name]]]

(* ListsRepository.upsert: by Google list id when one is given (UNIQUE column, the
   name of the row is overwritten), by name otherwise; last_synced is not modelled *)
Lists_upsert(d, googleListId, name) ==
    IF googleListId # NULL
    THEN IF Lists_findByGoogleId(d, googleListId) # 0
         THEN [d EXCEPT !.lists[Lists_findByGoogleId(d, googleListId)].name = name]
         ELSE InsertList(d, googleListId, name)
    ELSE IF \E id \in DOMAIN d.lists : d.lists[id].name = name
         THEN d
         ELSE InsertList(d, NULL, name)

(* PlaceListsRepository *)
add(d, placeId, listId) ==
    IF <<placeId, listId>> \in DOMAIN d.placeLists THEN d
    ELSE [d EXCEPT !.placeLists =
            [k \in DOMAIN d.placeLists \cup {<<placeId, listId>>} |->
                IF k = <<placeId, listId>> THEN [deleted_locally |-> FALSE]
                ELSE d.placeLists[k]]]

(* remove that deletes nothing *)
remove_keepsRow(d, placeId, listId) == d

remove(d, placeId, listId) ==
    [d EXCEPT !.placeLists =
        [k \in DOMAIN d.placeLists \ {<<placeId, listId>>} |-> d.placeLists[k]]]

markDeletedLocally(d, placeId, listId) ==
    IF <<placeId, listId>> \in DOMAIN d.placeLists
    THEN [d EXCEPT !.placeLists[<<placeId, listId>>].deleted_locally = TRUE]
    ELSE d

(* ids of the places returned by findPlacesInList(listId), in result order *)
findPlacesInList(d, listId) ==
    SortedSeq({p \in DOMAIN d.places :
                  /\ <<p, listId>> \in DOMAIN d.placeLists
                  /\ ~d.places[p].is_deleted
                  /\ ~d.placeLists[<<p, listId>>].deleted_locally})

(* Database: pending operations and sync log *)
(* JSON.stringify / JSON.parse of a payload: the text of the object and its reading *)
JSONStringify(v) == [json |-> v]
JSONParse(text) == text.json

(* a TIMESTAMP column that is NULL *)
NoTimestamp == -1

(* an enqueue that inserts the operation twice *)
addPendingOperation_twice(d, operationType, payload) ==
    [d EXCEPT !.pendingOperations = @ \o
        <<[id |-> Len(@) + 1, operation_type |-> operationType,
           payload |-> JSONStringify(payload),
           status |-> "pending", retry_count |-> 0, max_retries |-> 3,
           next_retry_at |-> NoTimestamp, created_at |-> d.now],
          [id |-> Len(@) + 2, operation_type |-> operationType,
           payload |-> JSONStringify(payload),
           status |-> "pending", retry_count |-> 0, max_retries |-> 3,
           next_retry_at |-> NoTimestamp, created_at |-> d.now]>>]

addPendingOperation(d, operationType, payload) ==
    [d EXCEPT !.pendingOperations = Append(@,
        [id |-> Len(@) + 1, operation_type |-> operationType,
         payload |-> JSONStringify(payload),
         status |-> "pending", retry_count |-> 0, max_retries |-> 3,
         next_retry_at |-> NoTimestamp, created_at |-> d.now])]

(* an ordering by rowid, whatever the creation times *)
RECURSIVE OrderByCreatedAt_byRowid(_)
OrderByCreatedAt_byRowid(ops) ==
    IF ops = {} THEN <<>>
    ELSE LET first == CHOOSE o \in ops : \A x \in ops : o.id <= x.id
         IN  <<first>> \o OrderByCreatedAt_byRowid(ops \ {first})

(* ORDER BY created_at ASC; rows created in the same second come in rowid order *)
RECURSIVE OrderByCreatedAt(_)
OrderByCreatedAt(ops) ==
    IF ops = {} THEN <<>>
    ELSE LET first == CHOOSE o \in ops :
                        \A x \in ops : \/ o.created_at < x.created_at
                                       \/ (o.created_at = x.created_at /\ o.id <= x.id)
         IN  <<first>> \o OrderByCreatedAt(ops \ {first})

(* a query without the status test *)
getPendingOperations_anyStatus(d) ==
    LET rows == OrderByCreatedAt({d.pendingOperations[i] : i \in
                    {j \in DOMAIN d.pendingOperations :
                        \/ d.pendingOperations[j].next_retry_at = NoTimestamp
                        \/ d.pendingOperations[j].next_retry_at <= d.now}})
    IN  [i \in 1..Len(rows) |-> [rows[i] EXCEPT !.payload = JSONParse(@)]]

getPendingOperations(d) ==
    LET rows == OrderByCreatedAt({d.pendingOperations[i] : i \in
                    {j \in DOMAIN d.pendingOperations :
                        /\ d.pendingOperations[j].status = "pending"
                        /\ \/ d.pendingOperations[j].next_retry_at = NoTimestamp
                           \/ d.pendingOperations[j].next_retry_at <= d.now}})
    IN  [i \in 1..Len(rows) |-> [rows[i] EXCEPT !.payload = JSONParse(@)]]

(* the value of the SQL expression '+' || (retry_count + 1) * 5 || ' minutes':
   `||` binds tighter than `*`, so it is ('+' || (retry_count + 1)) * (5 || ' minutes'),
   the product of the numeric prefixes of the two texts, an integer *)
RetryModifier(retry_count) == [type |-> "integer", value |-> (retry_count + 1) * 5]

(* datetime('now', modifier): a text 'NNN minutes' shifts the time, a bare number is
   no modifier and the result is NULL *)
datetime(now, modifier) ==
    IF modifier.type = "minutes" THEN now + modifier.value ELSE NoTimestamp

(* a retryOperation whose status never becomes failed *)
retryOperation_neverFails(d, operationId) ==
    IF operationId \notin DOMAIN d.pendingOperations THEN d
    ELSE LET op == d.pendingOperations[operationId]
         IN  [d EXCEPT !.pendingOperations[operationId] =
                [op EXCEPT !.retry_count = op.retry_count + 1,
                           !.next_retry_at = datetime(d.now, RetryModifier(op.retry_count)),
                           !.status = "pending"]]

(* Database.updateOperationStatus: one UPDATE of the row with this id; status is
   the only column it writes that a query of the queue reads *)
updateOperationStatus(d, operationId, status) ==
    IF operationId \notin DOMAIN d.pendingOperations THEN d
    ELSE [d EXCEPT !.pendingOperations[operationId].status = status]

(* Database.retryOperation: one UPDATE, every right-hand side reads the old row *)
retryOperation(d, operationId) ==
    IF operationId \notin DOMAIN d.pendingOperations THEN d
    ELSE LET op == d.pendingOperations[operationId]
         IN  [d EXCEPT !.pendingOperations[operationId] =
                [op EXCEPT !.retry_count = op.retry_count + 1,
                           !.next_retry_at = datetime(d.now, RetryModifier(op.retry_count)),
                           !.status = IF op.retry_count + 1 >= op.max_retries
                                      THEN "failed" ELSE "pending"]]

(* Database.startSync: one INSERT; `updates` counts the UPDATE statements that have
   written the row since *)
startSync(d, type) ==
    [d EXCEPT !.syncLog = Append(@,
        [id |-> Len(@) + 1, sync_type |-> type, status |-> "in_progress",
         places_pulled |-> 0, operations_pushed |-> 0, conflicts_detected |-> 0,
         errors |-> <<>>, completed |-> FALSE, updates |-> 0])]

(* a completeSync that leaves the errors column as it was *)
completeSync_dropsErrors(d, id, st) ==
    [d EXCEPT !.syncLog[id] =
        [@ EXCEPT !.status = st.status, !.places_pulled = st.placesPulled,
                  !.operations_pushed = st.operationsPushed,
                  !.conflicts_detected = st.conflictsDetected,
                  !.completed = TRUE, !.updates = @ + 1]]

(* Database.completeSync: one UPDATE of the row with this id *)
completeSync(d, id, st) ==
    [d EXCEPT !.syncLog[id] =
        [@ EXCEPT !.status = st.status, !.places_pulled = st.placesPulled,
                  !.operations_pushed = st.operationsPushed,
                  !.conflicts_detected = st.conflictsDetected,
                  !.errors = st.errors, !.completed = TRUE, !.updates = @ + 1]]


----------------------------------------------------------------------------
(* Merger *)

(* applyNotesChange whose take_remote branch leaves the Base row alone *)
applyNotesChange_noBaseOnTakeRemote(d, c) ==
    IF findById(d, c.placeId) = NoRow THEN Ok(d)
    ELSE CASE c.resolution = "keep_local" ->
                savePlaceNotes(d, c.placeId, hashNotes(c.localValue))
           [] c.resolution = "take_remote" ->
                Ok(updateNotes(d, c.placeId, c.remoteValue))
           [] c.resolution = "local_wins" ->
                savePlaceNotes(d, c.placeId, hashNotes(c.localValue))
           [] c.resolution = "already_synced" ->
                savePlaceNotes(d, c.placeId, hashNotes(c.localValue))
           [] OTHER -> Ok(d)

(* applyNotesChange that queues a write-back of the notes it keeps in a conflict *)
applyNotesChange_queuesWriteBack(d, c) ==
    IF findById(d, c.placeId) = NoRow THEN Ok(d)
    ELSE CASE c.resolution = "keep_local" ->
                savePlaceNotes(d, c.placeId, hashNotes(c.localValue))
           [] c.resolution = "take_remote" ->
                savePlaceNotes(updateNotes(d, c.placeId, c.remoteValue),
                               c.placeId, hashNotes(c.remoteValue))
           [] c.resolution = "local_wins" ->
                savePlaceNotes(addPendingOperation(d, "update_notes",
                                                   [placeId |-> c.placeId]),
                               c.placeId, hashNotes(c.localValue))
           [] c.resolution = "already_synced" ->
                savePlaceNotes(d, c.placeId, hashNotes(c.localValue))
           [] OTHER -> Ok(d)

applyNotesChange(d, c) ==
    IF findById(d, c.placeId) = NoRow THEN Ok(d)
    ELSE CASE c.resolution = "keep_local" ->
                savePlaceNotes(d, c.placeId, hashNotes(c.localValue))
           [] c.resolution = "take_remote" ->
                savePlaceNotes(updateNotes(d, c.placeId, c.remoteValue),
                               c.placeId, hashNotes(c.remoteValue))
           [] c.resolution = "local_wins" ->
                savePlaceNotes(d, c.placeId, hashNotes(c.localValue))
           [] c.resolution = "already_synced" ->
                savePlaceNotes(d, c.placeId, hashNotes(c.localValue))
           [] OTHER -> Ok(d)

(* applyAssociationChange whose push_add branch only queues the operation *)
applyAssociationChange_noBaseOnPushAdd(d, c) ==
    LET payload == [placeId |-> c.placeId, listId |-> c.listId]
    IN  CASE c.resolution = "push_add" ->
                Ok(addPendingOperation(d, "add_place_to_list", payload))
          [] c.resolution = "push_remove" ->
                savePlaceListAssociation(addPendingOperation(d, "remove_place_from_list", payload),
                                         c.placeId, c.listId, FALSE)
          [] c.resolution = "add_locally" ->
                savePlaceListAssociation(add(d, c.placeId, c.listId), c.placeId, c.listId, TRUE)
          [] c.resolution = "remove_locally" ->
                savePlaceListAssociation(remove(d, c.placeId, c.listId), c.placeId, c.listId, FALSE)
          [] c.resolution = "local_wins" ->
                IF c.existsLocal
                THEN savePlaceListAssociation(addPendingOperation(d, "add_place_to_list", payload),
                                              c.placeId, c.listId, TRUE)
                ELSE savePlaceListAssociation(addPendingOperation(d, "remove_place_from_list", payload),
                                              c.placeId, c.listId, FALSE)
          [] OTHER -> Ok(d)

(* applyAssociationChange whose push branches queue nothing when the same
   operation is already queued *)
applyAssociationChange_pushOnce(d, c) ==
    LET payload == [placeId |-> c.placeId, listId |-> c.listId]
        queued(t) == \E i \in 1..Len(d.pendingOperations) :
                        /\ d.pendingOperations[i].operation_type = t
                        /\ d.pendingOperations[i].payload = JSONStringify(payload)
        enqueue(t) == IF queued(t) THEN d ELSE addPendingOperation(d, t, payload)
    IN  CASE c.resolution = "push_add" ->
                savePlaceListAssociation(enqueue("add_place_to_list"), c.placeId, c.listId, TRUE)
          [] c.resolution = "push_remove" ->
                savePlaceListAssociation(enqueue("remove_place_from_list"),
                                         c.placeId, c.listId, FALSE)
          [] c.resolution = "add_locally" ->
                savePlaceListAssociation(add(d, c.placeId, c.listId), c.placeId, c.listId, TRUE)
          [] c.resolution = "remove_locally" ->
                savePlaceListAssociation(remove(d, c.placeId, c.listId), c.placeId, c.listId, FALSE)
          [] OTHER -> Ok(d)

applyAssociationChange(d, c) ==
    LET payload == [placeId |-> c.placeId, listId |-> c.listId]
    IN  CASE c.resolution = "push_add" ->
                savePlaceListAssociation(addPendingOperation(d, "add_place_to_list", payload),
                                         c.placeId, c.listId, TRUE)
          [] c.resolution = "push_remove" ->
                savePlaceListAssociation(addPendingOperation(d, "remove_place_from_list", payload),
                                         c.placeId, c.listId, FALSE)
          [] c.resolution = "add_locally" ->
                savePlaceListAssociation(add(d, c.placeId, c.listId), c.placeId, c.listId, TRUE)
          [] c.resolution = "remove_locally" ->
                savePlaceListAssociation(remove(d, c.placeId, c.listId), c.placeId, c.listId, FALSE)
          [] c.resolution = "local_wins" ->
                IF c.existsLocal
                THEN savePlaceListAssociation(addPendingOperation(d, "add_place_to_list", payload),
                                              c.placeId, c.listId, TRUE)
                ELSE savePlaceListAssociation(addPendingOperation(d, "remove_place_from_list", payload),
                                              c.placeId, c.listId, FALSE)
          [] OTHER -> Ok(d)

(* One iteration of the loops of applyChanges *)
applyChange(d, c) ==
    IF c.entity = "place_notes" THEN applyNotesChange(d, c) ELSE applyAssociationChange(d, c)

(* the two loops of Merger.applyChanges: `applied++` follows a call that returned,
   the catch block only logs *)
RECURSIVE ApplyLoop(_, _)
ApplyLoop(acc, decisions) ==
    IF decisions = <<>> THEN acc
    ELSE LET c == Head(decisions)
             r == applyChange(acc.db, c)
         IN  ApplyLoop([db |-> r.db,
                        applied |-> IF r.threw THEN acc.applied ELSE acc.applied + 1,
                        conflicts |-> IF ~r.threw /\ c.type = "conflict"
                                      THEN acc.conflicts + 1 ELSE acc.conflicts],
                       Tail(decisions))

applyChanges(d, changes) ==
    ApplyLoop([db |-> d, applied |-> 0, conflicts |-> 0],
              changes.notesChanges \o changes.associationChanges)

----------------------------------------------------------------------------
(* ChangeDetector.detectChangesForList *)

EmptyChanges == [notesChanges |-> <<>>, associationChanges |-> <<>>, conflicts |-> <<>>]

(* the entry of remotePlaces with this google_place_id that the Map keeps (the last one) *)
RemotePlace(remotePlaces, g) ==
    remotePlaces[CHOOSE i \in 1..Len(remotePlaces) :
                    /\ remotePlaces[i].google_place_id = g
                    /\ \A j \in (i+1)..Len(remotePlaces) : remotePlaces[j].google_place_id # g]

InRemote(remotePlaces, g) ==
    \E i \in 1..Len(remotePlaces) : remotePlaces[i].google_place_id = g

(* keys of remotePlaceMap in insertion order *)
RemoteKeys(remotePlaces) ==
    LET all == [i \in 1..Len(remotePlaces) |-> remotePlaces[i].google_place_id]
        idx == {i \in 1..Len(all) : \A j \in 1..(i-1) : all[j] # all[i]}
        ord == SortedSeq(idx)
    IN  [k \in 1..Len(ord) |-> all[ord[k]]]

detectChangesForList(d, listName, remotePlaces) ==
    LET listId == findByName(d, listName)
        localPlaces == findPlacesInList(d, listId)
        localKeys == [i \in 1..Len(localPlaces) |-> d.places[localPlaces[i]].google_place_id]
        InLocal(g) == \E i \in 1..Len(localKeys) : localKeys[i] = g
        LocalId(g) == localPlaces[CHOOSE i \in 1..Len(localKeys) : localKeys[i] = g]
        allPlaceIds == localKeys \o SelectSeq(RemoteKeys(remotePlaces), LAMBDA g : ~InLocal(g))
        notesChange(g) ==
            IF InLocal(g) /\ InRemote(remotePlaces, g)
            THEN detectPlaceNotesChange(d, LocalId(g), d.places[LocalId(g)].notes,
                                        RemotePlace(remotePlaces, g).notes)
            ELSE NoDecision
        placeIdOf(g) == IF InLocal(g) THEN LocalId(g) ELSE findByGoogleId(d, g)
        assocChange(g) ==
            IF placeIdOf(g) # 0
            THEN detectPlaceListChange(d, placeIdOf(g), listId, InLocal(g), InRemote(remotePlaces, g))
            ELSE NoDecision
        notesAll == [i \in 1..Len(allPlaceIds) |-> notesChange(allPlaceIds[i])]
        assocAll == [i \in 1..Len(allPlaceIds) |-> assocChange(allPlaceIds[i])]
        conflictsOf(i) ==
            (IF notesAll[i].type = "conflict" THEN <<notesAll[i]>> ELSE <<>>)
            \o (IF assocAll[i].type = "conflict" THEN <<assocAll[i]>> ELSE <<>>)
    IN  IF listId = 0
        THEN [threw |-> TRUE, changes |-> EmptyChanges]
        ELSE [threw |-> FALSE,
              changes |->
                [notesChanges |-> SelectSeq(notesAll, LAMBDA x : x # NoDecision),
                 associationChanges |-> SelectSeq(assocAll, LAMBDA x : x # NoDecision),
                 conflicts |-> Flatten([i \in 1..Len(allPlaceIds) |-> conflictsOf(i)])]]


----------------------------------------------------------------------------
(* Inputs *)

(* what scrapePlacesFromCurrentList can return: each saved place at most once *)
Snapshots ==
    UNION {{[i \in 1..Cardinality(S) |->
                [google_place_id |-> GooglePlaceId[SortedSeq(S)[i]],
                 notes |-> f[SortedSeq(S)[i]]]] : f \in [S -> RemoteNotes]}
           : S \in SUBSET PlaceIds}

(* what getListNames can return *)
ListNameSeqs == {<<"A", "B">>}

(* the limit quickSync passes to scrapePlacesFromCurrentList *)
QuickLimit == 50

ScrapeLimit(type) == IF type = "quick" THEN QuickLimit ELSE 0

InitialStats ==
    [placesPulled |-> 0, operationsPushed |-> 0, conflictsDetected |-> 0,
     status |-> "in_progress", errors |-> <<>>]

NoChange == [decision |-> NoDecision, threw |-> FALSE]

(* the database file as the import left it: every place and list has its row, place 1
   is in list "A", nothing has been synced yet *)
InitialDb ==
    [places |-> [p \in PlaceIds |->
                    [google_place_id |-> GooglePlaceId[p], notes |-> NULL,
                     notes_hash |-> NULL, is_deleted |-> FALSE]],
     lists |-> [l \in ListIds |-> [name |-> ListName[l]]],
     placeLists |-> [k \in {<<1, 1>>} |-> [deleted_locally |-> FALSE]],
     lastRemoteState |-> [k \in {} |-> NULL],
     pendingOperations |-> <<>>,
     syncLog |-> <<>>,
     now |-> 0]

NoProbe == [fn |-> "none"]

Init ==
    /\ db = InitialDb
    /\ phase = "idle"
    /\ syncType = "quick"
    /\ dryRun = FALSE
    /\ syncId = 0
    /\ listNames = <<>>
    /\ cursor = 0
    /\ remoteState = <<>>
    /\ failedLists = <<>>
    /\ stats = InitialStats
    /\ allChanges = EmptyChanges
    /\ mergeResult = [applied |-> 0, conflicts |-> 0]
    /\ change = NoChange
    /\ thrown = FALSE
    /\ runs = 0
    /\ edits = 0
    /\ probe = NoProbe

NoRun == phase = "idle"

----------------------------------------------------------------------------
(* Local edits between runs, through the repositories *)

EditNotes(p, v) ==
    /\ NoRun
    /\ edits < MaxEdits
    /\ db' = updateNotes(db, p, v)
    /\ edits' = edits + 1
    /\ UNCHANGED <<runVars, probe>>

EditAdd(p, l) ==
    /\ NoRun
    /\ edits < MaxEdits
    /\ db' = add(db, p, l)
    /\ db' # db
    /\ edits' = edits + 1
    /\ UNCHANGED <<runVars, probe>>

EditMarkDeletedLocally(p, l) ==
    /\ NoRun
    /\ edits < MaxEdits
    /\ db' = markDeletedLocally(db, p, l)
    /\ db' # db
    /\ edits' = edits + 1
    /\ UNCHANGED <<runVars, probe>>

----------------------------------------------------------------------------
(* SyncOrchestrator.quickSync / deepSync *)

(* the outer catch block: mark failed, record the error, complete the log, rethrow *)
CatchAndRethrow(d, st, message) ==
    LET st2 == [st EXCEPT !.status = "failed",
                          !.errors = Append(@, [phase |-> "sync", error |-> message])]
    IN  [db |-> completeSync(d, syncId, st2), stats |-> st2]

StartSync(type, dry) ==
    /\ NoRun
    /\ runs < MaxRuns
    /\ runs' = runs + 1
    /\ db' = startSync(db, type)
    /\ syncId' = Len(db.syncLog) + 1
    /\ syncType' = type
    /\ dryRun' = dry
    /\ stats' = InitialStats
    /\ phase' = "starting"
    /\ listNames' = <<>>
    /\ cursor' = 0
    /\ remoteState' = <<>>
    /\ failedLists' = <<>>
    /\ allChanges' = EmptyChanges
    /\ mergeResult' = [applied |-> 0, conflicts |-> 0]
    /\ change' = NoChange
    /\ thrown' = FALSE
    /\ UNCHANGED <<edits, probe>>

GetListNames(names) ==
    /\ phase = "starting"
    /\ listNames' = names
    /\ cursor' = 1
    /\ phase' = "pulling"
    /\ UNCHANGED <<db, syncType, dryRun, syncId, remoteState, failedLists, stats,
                   allChanges, mergeResult, change, thrown, runs, edits, probe>>

GetListNamesThrows ==
    /\ phase = "starting"
    /\ LET r == CatchAndRethrow(db, stats, "getListNames failed")
       IN  /\ db' = r.db
           /\ stats' = r.stats
    /\ phase' = "aborted"
    /\ thrown' = TRUE
    /\ UNCHANGED <<syncType, dryRun, syncId, listNames, cursor, remoteState, failedLists,
                   allChanges, mergeResult, change, runs, edits, probe>>

(* remoteState[listName] = places *)
SetRemote(rs, listName, places) ==
    IF \E i \in 1..Len(rs) : rs[i][1] = listName
    THEN [i \in 1..Len(rs) |-> IF rs[i][1] = listName THEN <<listName, places>> ELSE rs[i]]
    ELSE Append(rs, <<listName, places>>)

PullError(listName, message) == [list |-> listName, phase |-> "pull", error |-> message]

PullNext ==
    /\ cursor' = cursor + 1
    /\ phase' = IF cursor = Len(listNames) THEN "pull_validation" ELSE "pulling"

(* navigateToList returned false *)
PullNavigateFails ==
    /\ phase = "pulling" /\ cursor <= Len(listNames)
    /\ failedLists' = Append(failedLists, listNames[cursor])
    /\ stats' = [stats EXCEPT !.errors =
                    Append(@, PullError(listNames[cursor], "Failed to navigate to list"))]
    /\ PullNext
    /\ UNCHANGED <<db, syncType, dryRun, syncId, listNames, remoteState,
                   allChanges, mergeResult, change, thrown, runs, edits, probe>>

(* navigateToList or scrapePlacesFromCurrentList threw; error.message is whatever the
   browser layer reports *)
PullScrapeThrows ==
    /\ phase = "pulling" /\ cursor <= Len(listNames)
    /\ failedLists' = Append(failedLists, listNames[cursor])
    /\ stats' = [stats EXCEPT !.errors =
                    Append(@, PullError(listNames[cursor], "Failed to navigate to list"))]
    /\ PullNext
    /\ UNCHANGED <<db, syncType, dryRun, syncId, listNames, remoteState,
                   allChanges, mergeResult, change, thrown, runs, edits, probe>>

(* the list was scraped and the scraper navigated back *)
PullList(places) ==
    /\ phase = "pulling" /\ cursor <= Len(listNames)
    /\ ScrapeLimit(syncType) # 0 => Len(places) <= ScrapeLimit(syncType)
    /\ remoteState' = SetRemote(remoteState, listNames[cursor], places)
    /\ stats' = [stats EXCEPT !.placesPulled = @ + Len(places)]
    /\ PullNext
    /\ UNCHANGED <<db, syncType, dryRun, syncId, listNames, failedLists,
                   allChanges, mergeResult, change, thrown, runs, edits, probe>>

(* PULL VALIDATION: abort if any list failed *)
PullValidationAbort ==
    /\ phase = "pull_validation"
    /\ Len(failedLists) > 0
    /\ LET st1 == [stats EXCEPT !.status = "failed"]
           r == CatchAndRethrow(completeSync(db, syncId, st1), st1, "Pull phase failed")
       IN  /\ db' = r.db
           /\ stats' = r.stats
    /\ phase' = "aborted"
    /\ thrown' = TRUE
    /\ UNCHANGED <<syncType, dryRun, syncId, listNames, cursor, remoteState, failedLists,
                   allChanges, mergeResult, change, runs, edits, probe>>

(* the gate letting a run through as soon as one list was scraped *)
PullValidationPass_partial ==
    /\ phase = "pull_validation"
    /\ Len(remoteState) > 0
    /\ phase' = "detecting"
    /\ cursor' = 1
    /\ allChanges' = EmptyChanges
    /\ UNCHANGED <<db, syncType, dryRun, syncId, listNames, remoteState, failedLists, stats,
                   mergeResult, change, thrown, runs, edits, probe>>

PullValidationPass ==
    /\ phase = "pull_validation"
    /\ Len(failedLists) = 0
    /\ phase' = "detecting"
    /\ cursor' = 1
    /\ allChanges' = EmptyChanges
    /\ UNCHANGED <<db, syncType, dryRun, syncId, listNames, remoteState, failedLists, stats,
                   mergeResult, change, thrown, runs, edits, probe>>

(* a DETECT loop that gives up at the first list whose detection throws *)
RECURSIVE DetectLoop_stopsAtError(_, _)
DetectLoop_stopsAtError(d, rs) ==
    IF rs = <<>> THEN [allChanges |-> EmptyChanges, errors |-> <<>>]
    ELSE LET listName == Head(rs)[1]
             r == detectChangesForList(d, listName, Head(rs)[2])
             rest == DetectLoop_stopsAtError(d, Tail(rs))
         IN  IF r.threw
             THEN [allChanges |-> EmptyChanges,
                   errors |-> <<[list |-> listName, phase |-> "detect",
                                 error |-> "List not found"]>>]
             ELSE [rest EXCEPT !.allChanges =
                       [notesChanges |-> r.changes.notesChanges \o @.notesChanges,
                        associationChanges |->
                            r.changes.associationChanges \o @.associationChanges,
                        conflicts |-> r.changes.conflicts \o @.conflicts]]

(* the DETECT loop over Object.entries(remoteState): the decisions of every list,
   list after list, and one error entry per list whose detection threw *)
RECURSIVE DetectLoop(_, _)
DetectLoop(d, rs) ==
    IF rs = <<>> THEN [allChanges |-> EmptyChanges, errors |-> <<>>]
    ELSE LET listName == Head(rs)[1]
             r == detectChangesForList(d, listName, Head(rs)[2])
             rest == DetectLoop(d, Tail(rs))
         IN  IF r.threw
             THEN [rest EXCEPT !.errors =
                       <<[list |-> listName, phase |-> "detect",
                          error |-> "List not found"]>> \o @]
             ELSE [rest EXCEPT !.allChanges =
                       [notesChanges |-> r.changes.notesChanges \o @.notesChanges,
                        associationChanges |->
                            r.changes.associationChanges \o @.associationChanges,
                        conflicts |-> r.changes.conflicts \o @.conflicts]]

(* PHASE 2: DETECT, a synchronous loop followed by the conflict count *)
Detect ==
    /\ phase = "detecting"
    /\ LET r == DetectLoop(db, remoteState)
       IN  /\ allChanges' = r.allChanges
           /\ stats' = [stats EXCEPT !.errors = @ \o r.errors,
                                     !.conflictsDetected = Len(r.allChanges.conflicts)]
    /\ phase' = "merging"
    /\ cursor' = 1
    /\ mergeResult' = [applied |-> 0, conflicts |-> 0]
    /\ UNCHANGED <<db, syncType, dryRun, syncId, listNames, remoteState, failedLists,
                   change, thrown, runs, edits, probe>>

(* the decisions in the order applyChanges applies them *)
Decisions == allChanges.notesChanges \o allChanges.associationChanges

(* a preview that runs the first decision through the Merger *)
MergePreview_appliesFirst ==
    /\ phase = "merging" /\ dryRun
    /\ mergeResult' = [applied |-> 0, conflicts |-> Len(allChanges.conflicts),
                       wouldApply |-> Len(allChanges.notesChanges)
                                      + Len(allChanges.associationChanges)]
    /\ phase' = "pushing"
    /\ db' = IF Len(Decisions) > 0 THEN applyChange(db, Decisions[1]).db ELSE db
    /\ UNCHANGED <<syncType, dryRun, syncId, listNames, cursor, remoteState, failedLists,
                   stats, allChanges, change, thrown, runs, edits, probe>>

(* dry-run branch of PHASE 3: only a preview *)
MergePreview ==
    /\ phase = "merging" /\ dryRun
    /\ mergeResult' = [applied |-> 0, conflicts |-> Len(allChanges.conflicts),
                       wouldApply |-> Len(allChanges.notesChanges)
                                      + Len(allChanges.associationChanges)]
    /\ phase' = "pushing"
    /\ UNCHANGED <<db, syncType, dryRun, syncId, listNames, cursor, remoteState, failedLists,
                   stats, allChanges, change, thrown, runs, edits, probe>>

(* one iteration of Merger.applyChanges *)
MergeApply ==
    /\ phase = "merging" /\ ~dryRun /\ cursor <= Len(Decisions)
    /\ LET c == Decisions[cursor]
           r == applyChange(db, c)
       IN  /\ db' = r.db
           /\ change' = [decision |-> c, threw |-> r.threw]
           /\ mergeResult' =
                IF r.threw THEN mergeResult
                ELSE [applied |-> mergeResult.applied + 1,
                      conflicts |-> mergeResult.conflicts
                                    + (IF c.type = "conflict" THEN 1 ELSE 0)]
    /\ cursor' = cursor + 1
    /\ UNCHANGED <<phase, syncType, dryRun, syncId, listNames, remoteState, failedLists,
                   stats, allChanges, thrown, runs, edits, probe>>

MergeDone ==
    /\ phase = "merging" /\ ~dryRun /\ cursor > Len(Decisions)
    /\ phase' = "pushing"
    /\ UNCHANGED <<db, syncType, dryRun, syncId, listNames, cursor, remoteState, failedLists,
                   stats, allChanges, mergeResult, change, thrown, runs, edits, probe>>

(* a completion that reports success whatever was recorded *)
Push_alwaysSuccess ==
    /\ phase = "pushing"
    /\ LET st == [stats EXCEPT !.operationsPushed = 0, !.status = "success"]
       IN  /\ stats' = st
           /\ db' = completeSync(db, syncId, st)
    /\ phase' = "done"
    /\ listNames' = <<>>
    /\ remoteState' = <<>>
    /\ allChanges' = EmptyChanges
    /\ change' = NoChange
    /\ cursor' = 0
    /\ UNCHANGED <<syncType, dryRun, syncId, failedLists, mergeResult, thrown, runs, edits, probe>>

(* PHASE 4 and completion: nothing is pushed, the log entry is completed *)
Push ==
    /\ phase = "pushing"
    /\ LET st == [stats EXCEPT !.operationsPushed = 0,
                               !.status = IF Len(stats.errors) = 0 THEN "success" ELSE "partial"]
       IN  /\ stats' = st
           /\ db' = completeSync(db, syncId, st)
    /\ phase' = "done"
    /\ listNames' = <<>>
    /\ remoteState' = <<>>
    /\ allChanges' = EmptyChanges
    /\ change' = NoChange
    /\ cursor' = 0
    /\ UNCHANGED <<syncType, dryRun, syncId, failedLists, mergeResult, thrown, runs, edits, probe>>

(* the run has returned or thrown to its caller; its locals are gone *)
Exit ==
    /\ phase \in {"done", "aborted"}
    /\ phase' = "idle"
    /\ syncType' = "quick"
    /\ dryRun' = FALSE
    /\ syncId' = 0
    /\ listNames' = <<>>
    /\ cursor' = 0
    /\ remoteState' = <<>>
    /\ failedLists' = <<>>
    /\ stats' = InitialStats
    /\ allChanges' = EmptyChanges
    /\ mergeResult' = [applied |-> 0, conflicts |-> 0]
    /\ change' = NoChange
    /\ thrown' = FALSE
    /\ UNCHANGED <<db, runs, edits, probe>>

Next ==
    \/ \E p \in PlaceIds, v \in EditedNotes : EditNotes(p, v)
    \/ \E p \in PlaceIds, l \in ListIds : EditAdd(p, l)
    \/ \E p \in PlaceIds, l \in ListIds : EditMarkDeletedLocally(p, l)
    \/ \E type \in {"quick", "deep"}, dry \in BOOLEAN : StartSync(type, dry)
    \/ \E names \in ListNameSeqs : GetListNames(names)
    \/ GetListNamesThrows
    \/ PullNavigateFails
    \/ PullScrapeThrows
    \/ \E places \in Snapshots : PullList(places)
    \/ PullValidationAbort
    \/ PullValidationPass
    \/ Detect
    \/ MergePreview
    \/ MergeApply
    \/ MergeDone
    \/ Push
    \/ Exit

Spec == Init /\ [][Next]_vars


----------------------------------------------------------------------------
(* The detector primitives on their own: one call per behaviour, its        *)
(* arguments and the Base row drawn from bounded sets                       *)

Pending == [type |-> "pending"]

BaseHashes == {NULL} \cup {sha256(v) : v \in NotesValues \ {NULL}}
BaseStates == {NULL, "exists", "not_exists"}

DbWithBase(entityType, entityId, stateHash) ==
    IF stateHash = NULL THEN InitialDb
    ELSE [InitialDb EXCEPT !.lastRemoteState =
            [k \in {EntityKey(entityType, entityId)} |-> stateHash]]

(* the association row of a pair: none, a live one, a locally deleted one *)
AssociationRows == {"none", "member", "deleted_locally"}

DbWithAssociation(placeId, listId, row, baseState) ==
    LET d == DbWithBase("place_list_association", PlaceListId(placeId, listId), baseState)
    IN  [d EXCEPT !.placeLists =
            IF row = "none" THEN [k \in {} |-> [deleted_locally |-> FALSE]]
            ELSE [k \in {<<placeId, listId>>} |->
                    [deleted_locally |-> (row = "deleted_locally")]]]

(* a Google place id the places table has no row for *)
UnknownGooglePlaceId == "g9"

(* snapshots of one list holding the known place, a place without a local row, both *)
BatchSnapshots ==
    LET known == [google_place_id |-> GooglePlaceId[1], notes |-> "a"]
        new == [google_place_id |-> UnknownGooglePlaceId, notes |-> "a"]
    IN  {<<>>, <<known>>, <<new>>, <<known, new>>, <<new, known>>}

(* no run is in progress *)
IdleRun ==
    /\ phase = "idle"
    /\ syncType = "quick"
    /\ dryRun = FALSE
    /\ syncId = 0
    /\ listNames = <<>>
    /\ cursor = 0
    /\ remoteState = <<>>
    /\ failedLists = <<>>
    /\ stats = InitialStats
    /\ allChanges = EmptyChanges
    /\ mergeResult = [applied |-> 0, conflicts |-> 0]
    /\ change = NoChange
    /\ thrown = FALSE
    /\ runs = 0
    /\ edits = 0

InitDetector ==
    /\ \/ \E p \in PlaceIds, b \in BaseHashes, l \in NotesValues, r \in NotesValues :
            /\ db = DbWithBase("place_notes", PlaceNotesId(p), b)
            /\ probe = [fn |-> "detectPlaceNotesChange", placeId |-> p,
                        localNotes |-> l, remoteNotes |-> r, out |-> Pending]
       \/ \E p \in PlaceIds, li \in ListIds, b \in BaseStates, l \in BOOLEAN, r \in BOOLEAN :
            /\ db = DbWithBase("place_list_association", PlaceListId(p, li), b)
            /\ probe = [fn |-> "detectPlaceListChange", placeId |-> p, listId |-> li,
                        existsLocal |-> l, existsRemote |-> r, out |-> Pending]
       \/ \E row \in AssociationRows, b \in BaseStates, rp \in BatchSnapshots :
            /\ db = DbWithAssociation(1, 1, row, b)
            /\ probe = [fn |-> "detectChangesForList", listName |-> ListName[1],
                        remotePlaces |-> rp, out |-> Pending]
    /\ IdleRun

CallDetectPlaceNotesChange ==
    /\ probe.fn = "detectPlaceNotesChange" /\ probe.out = Pending
    /\ probe' = [probe EXCEPT !.out =
                    detectPlaceNotesChange(db, probe.placeId, probe.localNotes, probe.remoteNotes)]
    /\ UNCHANGED <<db, runVars, edits>>

CallDetectPlaceListChange ==
    /\ probe.fn = "detectPlaceListChange" /\ probe.out = Pending
    /\ probe' = [probe EXCEPT !.out =
                    detectPlaceListChange(db, probe.placeId, probe.listId,
                                          probe.existsLocal, probe.existsRemote)]
    /\ UNCHANGED <<db, runVars, edits>>

CallDetectChangesForList ==
    /\ probe.fn = "detectChangesForList" /\ probe.out = Pending
    /\ probe' = [probe EXCEPT !.out =
                    detectChangesForList(db, probe.listName, probe.remotePlaces)]
    /\ UNCHANGED <<db, runVars, edits>>

NextDetector ==
    \/ CallDetectPlaceNotesChange
    \/ CallDetectPlaceListChange
    \/ CallDetectChangesForList

SpecDetector == InitDetector /\ [][NextDetector]_vars

----------------------------------------------------------------------------
(* Properties *)

Resolution(decision) == IF decision = NoDecision THEN "none" ELSE decision.resolution

NotesCallDone == probe.fn = "detectPlaceNotesChange" /\ probe.out # Pending
ListCallDone == probe.fn = "detectPlaceListChange" /\ probe.out # Pending

BoolToNat(b) == IF b THEN 1 ELSE 0

(* C1: for every triple (B, L, R) of Base, local and remote fingerprints,   *)
(* an absent fingerprint being a value like any other,                      *)
(* detectPlaceNotesChange returns no decision when L = R = B, keep_local    *)
(* when L # B and R = B, take_remote when R # B and L = B, a conflict with  *)
(* resolution local_wins when all three differ pairwise from B and each     *)
(* other, already_synced when L = R # B; exactly one of the five cases      *)
(* applies to each triple.                                                  *)
C1_NotesClassification ==
    NotesCallDone =>
        LET B == getPlaceNotes(db, probe.placeId)
            L == hash(probe.localNotes)
            R == hash(probe.remoteNotes)
            out == probe.out
        IN  /\ (L = R /\ L = B) => out = NoDecision
            /\ (L # B /\ R = B) => Resolution(out) = "keep_local"
            /\ (R # B /\ L = B) => Resolution(out) = "take_remote"
            /\ (L # B /\ R # B /\ L # R) =>
                    (Resolution(out) = "local_wins" /\ out.type = "conflict")
            /\ (L = R /\ L # B) => Resolution(out) = "already_synced"
            /\ BoolToNat(L = R /\ L = B) + BoolToNat(L # B /\ R = B)
               + BoolToNat(R # B /\ L = B) + BoolToNat(L # B /\ R # B /\ L # R)
               + BoolToNat(L = R /\ L # B) = 1

(* a conflict found against a missing Base row *)
C1_Witness ==
    /\ NotesCallDone
    /\ getPlaceNotes(db, probe.placeId) = NULL
    /\ probe.out.type = "conflict"

(* C2: detectPlaceListChange returns push_add for (existedInBase,           *)
(* existsLocal, existsRemote) = (F, T, F), push_remove for (T, F, T),       *)
(* add_locally for (F, F, T), remove_locally for (T, T, F), and no decision *)
(* when the three flags are equal.                                          *)
C2_MembershipClassification ==
    ListCallDone =>
        LET existedInBase == getPlaceListAssociation(db, probe.placeId, probe.listId) = "exists"
            flags == <<existedInBase, probe.existsLocal, probe.existsRemote>>
            out == probe.out
        IN  /\ flags = <<FALSE, TRUE, FALSE>> => Resolution(out) = "push_add"
            /\ flags = <<TRUE, FALSE, TRUE>> => Resolution(out) = "push_remove"
            /\ flags = <<FALSE, FALSE, TRUE>> => Resolution(out) = "add_locally"
            /\ flags = <<TRUE, TRUE, FALSE>> => Resolution(out) = "remove_locally"
            /\ (flags = <<TRUE, TRUE, TRUE>> \/ flags = <<FALSE, FALSE, FALSE>>) =>
                    out = NoDecision

(* the removal seen on the remote side while Base and Local still have the pair *)
C2_Witness ==
    /\ ListCallDone
    /\ getPlaceListAssociation(db, probe.placeId, probe.listId) = "exists"
    /\ probe.existsLocal /\ ~probe.existsRemote
    /\ Resolution(probe.out) = "remove_locally"


(* the stores a sync may change, the sync log left out *)
Stores(d) == <<d.places, d.lists, d.placeLists, d.lastRemoteState, d.pendingOperations>>

(* the Merger has just been handed a decision with this resolution *)
JustApplied(resolution) ==
    /\ phase \in {"merging", "pushing"}
    /\ ~dryRun
    /\ change.decision # NoDecision
    /\ change.decision.resolution = resolution

(* detection has finished and nothing has been merged yet *)
DetectionFinished == phase = "merging" /\ cursor = 1

IsMember(d, placeId, listId) ==
    \E i \in 1..Len(findPlacesInList(d, listId)) : findPlacesInList(d, listId)[i] = placeId

(* notes detection run again for the place of decision c, its local notes as they are
   now, against the remote notes of c *)
Redetect(c) == detectPlaceNotesChange(db, c.placeId, db.places[c.placeId].notes, c.remoteValue)

(* C3 as stated: after a take_remote notes decision was applied, detecting   *)
(* again for the place against the same remote notes yields already_synced. *)
C3_Original ==
    JustApplied("take_remote") => Resolution(Redetect(change.decision)) = "already_synced"

(* C3, amended: after a take_remote notes decision was applied, detecting    *)
(* again for the place against the same remote notes never yields another   *)
(* take_remote: it yields no decision when the Base row was written, and    *)
(* already_synced when the Base write was rejected (remote notes absent or  *)
(* empty).                                                                  *)
C3_NoSecondTakeRemote ==
    JustApplied("take_remote") =>
        LET again == Resolution(Redetect(change.decision))
        IN  /\ again # "take_remote"
            /\ ~change.threw => again = "none"
            /\ change.threw =>
                    (again = "already_synced" /\ change.decision.remoteValue \in {NULL, ""})

C3_Witness ==
    /\ JustApplied("take_remote")
    /\ ~change.threw
    /\ db.places[change.decision.placeId].notes = change.decision.remoteValue
    /\ Redetect(change.decision) = NoDecision

(* C4: every notes conflict decision has resolution local_wins, and once    *)
(* the Merger has applied it the Base fingerprint of the place is the       *)
(* fingerprint of the local notes and the local notes are as they were.     *)
C4_ConflictKeepsLocal ==
    /\ \A i \in 1..Len(allChanges.notesChanges) :
            allChanges.notesChanges[i].type = "conflict" =>
                allChanges.notesChanges[i].resolution = "local_wins"
    /\ (JustApplied("local_wins") /\ change.decision.entity = "place_notes") =>
            /\ getPlaceNotes(db, change.decision.placeId) = hashNotes(change.decision.localValue)
            /\ db.places[change.decision.placeId].notes = change.decision.localValue

(* C5: a notes decision whose local fingerprint equals Base and whose       *)
(* remote fingerprint differs is take_remote, and once the Merger has       *)
(* applied it the local notes are the remote notes and the Base fingerprint *)
(* is the fingerprint of the remote notes, whatever the remote notes are.   *)
C5_TakeRemote ==
    /\ \A i \in 1..Len(allChanges.notesChanges) :
            LET c == allChanges.notesChanges[i]
            IN  (hash(c.localValue) = c.baseValue /\ hash(c.remoteValue) # c.baseValue) =>
                    c.resolution = "take_remote"
    /\ JustApplied("take_remote") =>
            /\ db.places[change.decision.placeId].notes = change.decision.remoteValue
            /\ getPlaceNotes(db, change.decision.placeId) = hashNotes(change.decision.remoteValue)

(* the places of list listId that Local and Base have and the snapshot lacks *)
RemovedRemotely(d, listId, remotePlaces) ==
    {p \in DOMAIN d.places :
        /\ IsMember(d, p, listId)
        /\ getPlaceListAssociation(d, p, listId) = "exists"
        /\ ~InRemote(remotePlaces, d.places[p].google_place_id)}

HasAssocDecision(placeId, listId, resolution) ==
    \E i \in 1..Len(allChanges.associationChanges) :
        /\ allChanges.associationChanges[i].placeId = placeId
        /\ allChanges.associationChanges[i].listId = listId
        /\ allChanges.associationChanges[i].resolution = resolution

(* C6: in a deep sync, a place that is a local member of a list, has Base   *)
(* membership 'exists' and is missing from the list's snapshot gets the     *)
(* decision remove_locally; after the merge it is no local member of the    *)
(* list and Base membership of the pair is 'not_exists'.                    *)
C6_RemoveLocally ==
    syncType = "deep" =>
        /\ DetectionFinished =>
                \A i \in 1..Len(remoteState) :
                    \A p \in RemovedRemotely(db, findByName(db, remoteState[i][1]), remoteState[i][2]) :
                        HasAssocDecision(p, findByName(db, remoteState[i][1]), "remove_locally")
        /\ JustApplied("remove_locally") =>
                /\ ~IsMember(db, change.decision.placeId, change.decision.listId)
                /\ getPlaceListAssociation(db, change.decision.placeId, change.decision.listId)
                       = "not_exists"
        /\ (phase = "pushing" /\ ~dryRun) =>
                \A p \in PlaceIds, l \in ListIds :
                    HasAssocDecision(p, l, "remove_locally") =>
                        /\ ~IsMember(db, p, l)
                        /\ getPlaceListAssociation(db, p, l) = "not_exists"

C6_Witness ==
    /\ syncType = "deep" /\ phase = "pushing" /\ ~dryRun
    /\ \E p \in PlaceIds, l \in ListIds :
            /\ HasAssocDecision(p, l, "remove_locally")
            /\ ~IsMember(db, p, l)
            /\ getPlaceListAssociation(db, p, l) = "not_exists"

(* C7: if the pull of at least one list failed, the run stops at pull       *)
(* validation: detection is not run, Local, Base and Queue are as before    *)
(* the run, the sync-log entry ends failed and the run throws.              *)
C7_AbortOnFailedPull ==
    /\ [](Len(failedLists) > 0 =>
            /\ phase \in {"pulling", "pull_validation", "aborted"}
            /\ allChanges = EmptyChanges
            /\ phase = "aborted" =>
                    (thrown /\ db.syncLog[syncId].status = "failed"))
    /\ [][phase' \in {"starting", "pulling", "pull_validation", "aborted"} =>
            Stores(db') = Stores(db)]_vars

(* one list scraped, the other failed, the run aborted *)
C7_Witness ==
    /\ phase = "aborted"
    /\ Len(failedLists) = 1
    /\ Len(remoteState) = 1
    /\ thrown
    /\ db.syncLog[syncId].status = "failed"

(* C8: a quick sync neither produces nor applies a remove_locally decision. *)
C8_QuickNeverRemoves ==
    syncType = "quick" =>
        /\ \A i \in 1..Len(allChanges.associationChanges) :
                allChanges.associationChanges[i].resolution # "remove_locally"
        /\ ~JustApplied("remove_locally")

(* C9: a dry run changes neither Local nor Base nor the Queue; it completes *)
(* its sync-log entry.                                                      *)
C9_DryRunFrame ==
    /\ [][(dryRun \/ dryRun') => Stores(db') = Stores(db)]_vars
    /\ []((dryRun /\ phase = "done") => db.syncLog[syncId].status \in {"success", "partial"})

(* a dry run that previewed at least one decision *)
C9_Witness ==
    /\ dryRun
    /\ phase = "pushing"
    /\ Len(Decisions) > 0
    /\ mergeResult.applied = 0


(* C10: a dry run and a real run of the same mode, from the same stores and *)
(* the same snapshot, compute the same notes decisions, membership          *)
(* decisions and conflicts and record the same conflictsDetected (the       *)
(* decisions are a function of stores and snapshot alone); the dry run      *)
(* previews every decision and applies none, the real run applies every     *)
(* decision the dry run previews.                                           *)
C10_PreviewEqualsEffect ==
    /\ DetectionFinished =>
            /\ allChanges = DetectLoop(db, remoteState).allChanges
            /\ stats.conflictsDetected = Len(DetectLoop(db, remoteState).allChanges.conflicts)
    /\ (phase = "pushing" /\ dryRun) =>
            /\ mergeResult.wouldApply = Len(Decisions)
            /\ mergeResult.applied = 0
    /\ (phase = "pushing" /\ ~dryRun) => mergeResult.applied = Len(Decisions)


----------------------------------------------------------------------------
(* The pending operation queue: the Database methods called one after another *)

MaxOps == 2
MaxRetryCount == 4
MaxTime == 2

OperationTypes == {"add_place_to_list", "remove_place_from_list"}
OperationStatuses == {"pending", "in_progress", "completed", "failed"}

InitQueue ==
    /\ db = InitialDb
    /\ probe = NoProbe
    /\ IdleRun

(* what a sync run does to the queue: the Merger enqueues an operation for a
   push_add / push_remove / local_wins membership decision *)
Enqueue(operationType, placeId, listId) ==
    /\ Len(db.pendingOperations) < MaxOps
    /\ db' = addPendingOperation(db, operationType, [placeId |-> placeId, listId |-> listId])
    /\ probe' = [fn |-> "addPendingOperation"]
    /\ UNCHANGED <<runVars, edits>>

(* a failed attempt is recorded for an operation *)
RetryOperation(operationId) ==
    /\ operationId \in DOMAIN db.pendingOperations
    /\ db.pendingOperations[operationId].retry_count < MaxRetryCount
    /\ db' = retryOperation(db, operationId)
    /\ probe' = [fn |-> "retryOperation", id |-> operationId,
                 before |-> db.pendingOperations[operationId], at |-> db.now]
    /\ UNCHANGED <<runVars, edits>>

(* CURRENT_TIMESTAMP moves on *)
Tick ==
    /\ db.now < MaxTime
    /\ db' = [db EXCEPT !.now = @ + 1]
    /\ probe' = NoProbe
    /\ UNCHANGED <<runVars, edits>>

(* the PUSH phase asks for the operations that are ready *)
CallGetPendingOperations ==
    /\ probe.fn # "getPendingOperations"
    /\ probe' = [fn |-> "getPendingOperations", out |-> getPendingOperations(db)]
    /\ UNCHANGED <<db, runVars, edits>>

NextQueue ==
    \/ \E t \in OperationTypes, p \in PlaceIds, l \in ListIds : Enqueue(t, p, l)
    \/ \E id \in 1..MaxOps : RetryOperation(id)
    \/ Tick
    \/ CallGetPendingOperations

SpecQueue == InitQueue /\ [][NextQueue]_vars

(* getPendingOperations on any content of the table *)
QueueRows(id) ==
    [id : {id}, operation_type : {"add_place_to_list"},
     payload : {JSONStringify([placeId |-> 1, listId |-> 1])},
     status : OperationStatuses, retry_count : {0}, max_retries : {3},
     next_retry_at : {NoTimestamp} \cup 0..MaxTime, created_at : 0..1]

InitPendingQuery ==
    /\ \E r1 \in QueueRows(1), r2 \in QueueRows(2) :
            db = [InitialDb EXCEPT !.pendingOperations = <<r1, r2>>, !.now = 1]
    /\ probe = NoProbe
    /\ IdleRun

SpecPendingQuery == InitPendingQuery /\ [][CallGetPendingOperations]_vars

----------------------------------------------------------------------------
(* Merger.applyChanges called on a batch of decisions *)

(* a place id without a row in the places table *)
MissingPlaceId == 2

(* notes decisions: two that apply, one whose Base write is rejected, one for a
   place that has no row *)
BatchNotesDecisions ==
    {NotesDecision("local_change", 1, "b", "a", NULL, "keep_local"),
     NotesDecision("remote_change", 1, NULL, "b", NULL, "take_remote"),
     NotesDecision("local_change", 1, "", "a", "sha256:a", "keep_local"),
     NotesDecision("local_change", MissingPlaceId, "b", "a", NULL, "keep_local")}

BatchAssociationDecisions ==
    {AssocDecision("remote_add", 1, 2, FALSE, TRUE, FALSE, "add_locally"),
     AssocDecision("local_add", 1, 2, TRUE, FALSE, FALSE, "push_add")}

Batches ==
    [notesChanges : {<<>>} \cup {<<x>> : x \in BatchNotesDecisions}
                           \cup {<<x, y>> : x, y \in BatchNotesDecisions},
     associationChanges : {<<>>} \cup {<<x>> : x \in BatchAssociationDecisions},
     conflicts : {<<>>}]

InitMerger ==
    /\ db = InitialDb
    /\ \E b \in Batches : probe = [fn |-> "applyChanges", changes |-> b, out |-> Pending]
    /\ IdleRun

CallApplyChanges ==
    /\ probe.fn = "applyChanges" /\ probe.out = Pending
    /\ LET r == applyChanges(db, probe.changes)
       IN  /\ db' = r.db
           /\ probe' = [probe EXCEPT !.out = [applied |-> r.applied, conflicts |-> r.conflicts]]
    /\ UNCHANGED <<runVars, edits>>

SpecMerger == InitMerger /\ [][CallApplyChanges]_vars

----------------------------------------------------------------------------
(* One run over list names of which one has no local list *)

(* what getListNames returns when Google Maps has a list the lists table lacks *)
ScrapedListNames == {<<"C", "A">>, <<"A", "C">>}

(* the list was scraped, then navigateBackToLists threw: the snapshot is kept and the
   list is counted as failed *)
PullBackThrows(places) ==
    /\ phase = "pulling" /\ cursor <= Len(listNames)
    /\ ScrapeLimit(syncType) # 0 => Len(places) <= ScrapeLimit(syncType)
    /\ remoteState' = SetRemote(remoteState, listNames[cursor], places)
    /\ failedLists' = Append(failedLists, listNames[cursor])
    /\ stats' = [stats EXCEPT !.placesPulled = @ + Len(places),
                              !.errors = Append(@, PullError(listNames[cursor],
                                                             "Failed to navigate to list"))]
    /\ PullNext
    /\ UNCHANGED <<db, syncType, dryRun, syncId, listNames,
                   allChanges, mergeResult, change, thrown, runs, edits, probe>>

(* the run observed is the last one the bound allows *)
InitLists ==
    /\ db = InitialDb
    /\ probe = NoProbe
    /\ phase = "idle"
    /\ syncType = "quick"
    /\ dryRun = FALSE
    /\ syncId = 0
    /\ listNames = <<>>
    /\ cursor = 0
    /\ remoteState = <<>>
    /\ failedLists = <<>>
    /\ stats = InitialStats
    /\ allChanges = EmptyChanges
    /\ mergeResult = [applied |-> 0, conflicts |-> 0]
    /\ change = NoChange
    /\ thrown = FALSE
    /\ runs = MaxRuns - 1
    /\ edits = 0

NextLists ==
    \/ \E type \in {"quick", "deep"}, dry \in BOOLEAN : StartSync(type, dry)
    \/ \E names \in ScrapedListNames : GetListNames(names)
    \/ PullNavigateFails
    \/ PullScrapeThrows
    \/ \E places \in Snapshots : PullList(places)
    \/ \E places \in Snapshots : PullBackThrows(places)
    \/ PullValidationAbort
    \/ PullValidationPass
    \/ Detect
    \/ MergePreview
    \/ MergeApply
    \/ MergeDone
    \/ Push
    \/ Exit

SpecLists == InitLists /\ [][NextLists]_vars

----------------------------------------------------------------------------
(* Merger.applyNotesChange called on one decision *)

NotesResolutions == {"keep_local", "take_remote", "local_wins", "already_synced"}

(* the type detectPlaceNotesChange gives a decision of each resolution *)
NotesType ==
    [res \in NotesResolutions |->
        CASE res = "keep_local" -> "local_change"
          [] res = "take_remote" -> "remote_change"
          [] res = "local_wins" -> "conflict"
          [] OTHER -> "synchronized"]

(* the database with these notes for place 1 and, when queued, one operation waiting *)
DbWithNotes(notes, queued) ==
    LET d == updateNotes(InitialDb, 1, notes)
    IN  IF queued
        THEN addPendingOperation(d, "add_place_to_list", [placeId |-> 1, listId |-> 1])
        ELSE d

InitNotesMerge ==
    /\ \E notes \in NotesValues, queued \in BOOLEAN : db = DbWithNotes(notes, queued)
    /\ \E p \in {1, MissingPlaceId}, l \in NotesValues, r \in NotesValues,
          res \in NotesResolutions :
          probe = [fn |-> "applyNotesChange",
                   change |-> NotesDecision(NotesType[res], p, l, r, NULL, res),
                   before |-> db,
                   out |-> Pending]
    /\ IdleRun

CallApplyNotesChange ==
    /\ probe.fn = "applyNotesChange" /\ probe.out = Pending
    /\ LET r == applyNotesChange(db, probe.change)
       IN  /\ db' = r.db
           /\ probe' = [probe EXCEPT !.out = [threw |-> r.threw]]
    /\ UNCHANGED <<runVars, edits>>

SpecNotesMerge == InitNotesMerge /\ [][CallApplyNotesChange]_vars

----------------------------------------------------------------------------
(* PlacesRepository: upserts and note updates one after another *)

ScrapedGoogleIds == {"g1", "g2"}

(* the database right after the schema was created: no place yet *)
NoPlacesDb == [InitialDb EXCEPT !.places = <<>>, !.placeLists = [k \in {} |-> NULL]]

InitPlaces ==
    /\ db = NoPlacesDb
    /\ probe = NoProbe
    /\ IdleRun

UpsertPlace(g, notes) ==
    /\ db' = Places_upsert(db, [google_place_id |-> g, notes |-> notes])
    /\ UNCHANGED <<runVars, edits, probe>>

UpdateNotes(id, notes) ==
    /\ db' = updateNotes(db, id, notes)
    /\ UNCHANGED <<runVars, edits, probe>>

(* the Merger applies a take_remote decision for the place *)
MergeTakeRemote(id, remoteNotes) ==
    /\ id \in DOMAIN db.places
    /\ db' = applyNotesChange(db, NotesDecision("remote_change", id, db.places[id].notes,
                                                remoteNotes, getPlaceNotes(db, id),
                                                "take_remote")).db
    /\ UNCHANGED <<runVars, edits, probe>>

NextPlaces ==
    \/ \E g \in ScrapedGoogleIds, notes \in NotesValues : UpsertPlace(g, notes)
    \/ \E id \in 1..Cardinality(ScrapedGoogleIds), notes \in NotesValues : UpdateNotes(id, notes)
    \/ \E id \in 1..Cardinality(ScrapedGoogleIds), notes \in NotesValues :
          MergeTakeRemote(id, notes)

SpecPlaces == InitPlaces /\ [][NextPlaces]_vars

----------------------------------------------------------------------------
(* ListsRepository: list upserts one after another *)

GoogleListIds == {"L1", "L2"}
ScrapedNames == {"A", "B"}

(* the lists table right after the schema was created *)
NoListsDb == [NoPlacesDb EXCEPT !.lists = <<>>]

InitListUpserts ==
    /\ db = NoListsDb
    /\ probe = NoProbe
    /\ IdleRun

(* upsert(googleListId, name) *)
UpsertListById(googleListId, name) ==
    /\ db' = Lists_upsert(db, googleListId, name)
    /\ UNCHANGED <<runVars, edits, probe>>

(* upsert(name): one argument *)
UpsertListByName(name) ==
    /\ db' = Lists_upsert(db, NULL, name)
    /\ UNCHANGED <<runVars, edits, probe>>

NextListUpserts ==
    \/ \E g \in GoogleListIds, name \in ScrapedNames : UpsertListById(g, name)
    \/ \E name \in ScrapedNames : UpsertListByName(name)

SpecListUpserts == InitListUpserts /\ [][NextListUpserts]_vars

----------------------------------------------------------------------------
(* Detection and merge of list "A" repeated against an unchanged snapshot *)

MaxRounds == 2

InitRounds ==
    /\ \E b \in BaseHashes, l \in NotesValues, r \in NotesValues :
          /\ db = updateNotes(DbWithBase("place_notes", PlaceNotesId(1), b), 1, l)
          /\ probe = [fn |-> "syncRounds", edited |-> l, remoteNotes |-> r,
                      kept |-> FALSE, rounds |-> 0]
    /\ IdleRun

(* DETECT and MERGE of one run for list "A": place 1 is in the snapshot with the same
   notes as in the round before, and nothing was edited locally in between *)
SyncRound ==
    /\ probe.fn = "syncRounds" /\ probe.rounds < MaxRounds
    /\ LET r == detectChangesForList(db, ListName[1],
                    <<[google_place_id |-> GooglePlaceId[1], notes |-> probe.remoteNotes]>>)
       IN  /\ db' = applyChanges(db, r.changes).db
           /\ probe' = [probe EXCEPT
                  !.rounds = @ + 1,
                  !.kept = @ \/ \E i \in 1..Len(r.changes.notesChanges) :
                                   r.changes.notesChanges[i].resolution
                                       \in {"keep_local", "local_wins"}]
    /\ UNCHANGED <<runVars, edits>>

SpecRounds == InitRounds /\ [][SyncRound]_vars

----------------------------------------------------------------------------
(* Deep syncs repeated against a snapshot of list "A" that stays the same *)

InitDeepRounds ==
    /\ \E row \in AssociationRows, b \in BaseStates, l \in NotesValues, rp \in Snapshots :
          /\ db = updateNotes(DbWithAssociation(1, 1, row, b), 1, l)
          /\ probe = [fn |-> "deepRounds", remotePlaces |-> rp, rounds |-> 0]
    /\ IdleRun

(* DETECT and MERGE of one deep sync; nothing is edited locally between two rounds *)
DeepSyncRound ==
    /\ probe.fn = "deepRounds" /\ probe.rounds < MaxRounds
    /\ db' = applyChanges(db, detectChangesForList(db, ListName[1], probe.remotePlaces).changes).db
    /\ probe' = [probe EXCEPT !.rounds = @ + 1]
    /\ UNCHANGED <<runVars, edits>>

SpecDeepRounds == InitDeepRounds /\ [][DeepSyncRound]_vars

----------------------------------------------------------------------------
(* Merger and queue properties *)

(* this step hands a decision with the given resolution to the Merger *)
MergeStep(resolution) ==
    /\ phase = "merging" /\ ~dryRun
    /\ cursor' = cursor + 1
    /\ change'.decision.resolution = resolution

LastOperation(d) == d.pendingOperations[Len(d.pendingOperations)]

(* C11: applying push_add (push_remove) appends exactly one pending         *)
(* operation add_place_to_list (remove_place_from_list) whose payload is    *)
(* the decision's place id and list id, sets Base membership of the pair to *)
(* 'exists' ('not_exists') and leaves the association table as it was.      *)
C11_PushEnqueuesOne ==
    [][\A r \in {"push_add", "push_remove"} :
          MergeStep(r) =>
            LET c == change'.decision
            IN  /\ Len(db'.pendingOperations) = Len(db.pendingOperations) + 1
                /\ SubSeq(db'.pendingOperations, 1, Len(db.pendingOperations))
                       = db.pendingOperations
                /\ LastOperation(db').operation_type =
                       (IF r = "push_add" THEN "add_place_to_list"
                                          ELSE "remove_place_from_list")
                /\ LastOperation(db').payload =
                       JSONStringify([placeId |-> c.placeId, listId |-> c.listId])
                /\ LastOperation(db').status = "pending"
                /\ getPlaceListAssociation(db', c.placeId, c.listId) =
                       (IF r = "push_add" THEN "exists" ELSE "not_exists")
                /\ db'.placeLists = db.placeLists]_vars

(* a push_remove was applied: the removal is queued, Base says not_exists and the
   locally deleted row is still there *)
C11_Witness ==
    /\ JustApplied("push_remove")
    /\ LastOperation(db).operation_type = "remove_place_from_list"
    /\ LastOperation(db).payload =
           JSONStringify([placeId |-> change.decision.placeId,
                          listId |-> change.decision.listId])
    /\ getPlaceListAssociation(db, change.decision.placeId, change.decision.listId)
           = "not_exists"
    /\ <<change.decision.placeId, change.decision.listId>> \in DOMAIN db.placeLists

(* C12: once add_locally has been applied the place is a local member of    *)
(* the list (findPlacesInList returns it) and Base membership of the pair   *)
(* is 'exists', whatever association row the pair had before.               *)
C12_AddLocallyMakesMember ==
    JustApplied("add_locally") =>
        /\ IsMember(db, change.decision.placeId, change.decision.listId)
        /\ getPlaceListAssociation(db, change.decision.placeId, change.decision.listId)
               = "exists"


(* the Google place ids of a snapshot *)
SnapshotIds(remotePlaces) ==
    {remotePlaces[i].google_place_id : i \in 1..Len(remotePlaces)}

(* the id is the Google place id of a local member of the list *)
IsMemberByGoogleId(d, g, listId) ==
    \E p \in DOMAIN d.places :
        d.places[p].google_place_id = g /\ IsMember(d, p, listId)

(* Base records membership 'exists' for the place with this Google place id *)
BaseHasGoogleId(d, g, listId) ==
    \E p \in DOMAIN d.places :
        /\ d.places[p].google_place_id = g
        /\ getPlaceListAssociation(d, p, listId) = "exists"

(* C13: detectChangesForList runs membership detection for every place id   *)
(* seen in the local place set or in the snapshot; every place of the       *)
(* snapshot that is no local member and is not recorded in Base yields an   *)
(* add_locally decision, also a place without a row in the places table.    *)
C13_EveryObservedPlaceDetected ==
    (probe.fn = "detectChangesForList" /\ probe.out # Pending) =>
        LET listId == findByName(db, probe.listName)
            assoc == probe.out.changes.associationChanges
            observed == {p \in DOMAIN db.places :
                            \/ IsMember(db, p, listId)
                            \/ db.places[p].google_place_id \in SnapshotIds(probe.remotePlaces)}
            toAdd == {g \in SnapshotIds(probe.remotePlaces) :
                            ~IsMemberByGoogleId(db, g, listId) /\ ~BaseHasGoogleId(db, g, listId)}
        IN  /\ \A p \in observed :
                    LET expected == detectPlaceListChange(db, p, listId,
                                        IsMember(db, p, listId),
                                        db.places[p].google_place_id
                                            \in SnapshotIds(probe.remotePlaces))
                    IN  expected # NoDecision =>
                            \E i \in 1..Len(assoc) : assoc[i] = expected
            /\ Cardinality({i \in 1..Len(assoc) : assoc[i].resolution = "add_locally"})
                   = Cardinality(toAdd)


(* retryOperation has just been called on an operation *)
JustRetried == probe.fn = "retryOperation"

(* the operation is failed with its retries used up *)
RetryExhausted(op) == op.status = "failed" /\ op.retry_count >= op.max_retries

(* C14: after max_retries (3) failed attempts recorded by retryOperation an *)
(* operation is failed, and from then on retryOperation leaves its          *)
(* next_retry_at where it was.                                              *)
C14_FailedAfterMaxRetries ==
    /\ \A i \in DOMAIN db.pendingOperations :
            db.pendingOperations[i].retry_count >= db.pendingOperations[i].max_retries
                => db.pendingOperations[i].status = "failed"
    /\ (JustRetried /\ RetryExhausted(probe.before)) =>
            db.pendingOperations[probe.id].next_retry_at = probe.before.next_retry_at

(* a fourth failed attempt was recorded on an operation that was already failed *)
C14_Witness ==
    /\ JustRetried
    /\ RetryExhausted(probe.before)
    /\ db.pendingOperations[probe.id].retry_count = 4
    /\ db.pendingOperations[probe.id].status = "failed"

(* C15: a retryOperation call on a pending operation adds exactly 1 to      *)
(* retry_count, sets next_retry_at to now + 5 minutes x the new             *)
(* retry_count, and leaves the status pending when the new retry_count is   *)
(* below max_retries, failed otherwise.                                     *)
C15_RetrySchedule ==
    (JustRetried /\ probe.before.status = "pending") =>
        LET op == db.pendingOperations[probe.id]
        IN  /\ op.retry_count = probe.before.retry_count + 1
            /\ op.next_retry_at = probe.at + 5 * op.retry_count
            /\ op.status = (IF op.retry_count < op.max_retries THEN "pending" ELSE "failed")

(* C16: an operation that is failed with its retries used up stays failed   *)
(* through every later retryOperation call and every enqueue of a sync run, *)
(* and getPendingOperations does not return it.                             *)
C16_FailedIsTerminal ==
    /\ [][\A i \in DOMAIN db.pendingOperations :
            RetryExhausted(db.pendingOperations[i]) =>
                /\ i \in DOMAIN db'.pendingOperations
                /\ RetryExhausted(db'.pendingOperations[i])]_vars
    /\ [](probe.fn = "getPendingOperations" =>
            \A j \in 1..Len(probe.out) :
                ~RetryExhausted(db.pendingOperations[probe.out[j].id]))

(* the queue was read while it held an exhausted operation next to a ready one *)
C16_Witness ==
    /\ probe.fn = "getPendingOperations"
    /\ Len(probe.out) = 1
    /\ \E i \in DOMAIN db.pendingOperations :
            /\ RetryExhausted(db.pendingOperations[i])
            /\ db.pendingOperations[i].retry_count > db.pendingOperations[i].max_retries

(* the operations getPendingOperations has to return *)
ReadyIds(d) ==
    {i \in DOMAIN d.pendingOperations :
        /\ d.pendingOperations[i].status = "pending"
        /\ \/ d.pendingOperations[i].next_retry_at = NoTimestamp
           \/ d.pendingOperations[i].next_retry_at <= d.now}

(* C17: getPendingOperations returns exactly the operations that are        *)
(* pending and whose next_retry_at is unset or not later than now, each     *)
(* once, oldest creation time first; in_progress, completed, failed and     *)
(* future-scheduled operations are not returned.                            *)
C17_ReadyOperations ==
    probe.fn = "getPendingOperations" =>
        /\ {probe.out[j].id : j \in 1..Len(probe.out)} = ReadyIds(db)
        /\ Len(probe.out) = Cardinality(ReadyIds(db))
        /\ \A j \in 1..Len(probe.out) :
                /\ probe.out[j].status = "pending"
                /\ probe.out[j].payload = JSONParse(db.pendingOperations[probe.out[j].id].payload)
        /\ \A j, k \in 1..Len(probe.out) :
                j < k => probe.out[j].created_at <= probe.out[k].created_at

(* both rows are ready and the newer row has the smaller id *)
C17_Witness ==
    /\ probe.fn = "getPendingOperations"
    /\ Len(probe.out) = 2
    /\ probe.out[1].id = 2
    /\ probe.out[1].created_at < probe.out[2].created_at
    /\ probe.out[1].next_retry_at = db.now


(* the decision is for a place without a row: applyNotesChange returns at once *)
SkippedWithoutEffect(d, c) == c.entity = "place_notes" /\ findById(d, c.placeId) = NoRow

(* the decision was applied: not skipped, and its application did not throw *)
SuccessfullyApplied(d, c) == ~SkippedWithoutEffect(d, c) /\ ~applyChange(d, c).threw

(* what a successfully applied decision of a batch leaves behind *)
EffectVisible(d, c) ==
    CASE c.resolution = "keep_local" -> getPlaceNotes(d, c.placeId) = hashNotes(c.localValue)
      [] c.resolution = "take_remote" ->
            /\ getPlaceNotes(d, c.placeId) = hashNotes(c.remoteValue)
            /\ d.places[c.placeId].notes = c.remoteValue
      [] c.resolution = "add_locally" ->
            /\ IsMember(d, c.placeId, c.listId)
            /\ getPlaceListAssociation(d, c.placeId, c.listId) = "exists"
      [] c.resolution = "push_add" ->
            /\ getPlaceListAssociation(d, c.placeId, c.listId) = "exists"
            /\ Len(d.pendingOperations) = 1
      [] OTHER -> TRUE

(* C18: in applyChanges a decision that throws does not keep a later        *)
(* decision of the batch from being applied, and the returned applied count *)
(* is the number of decisions that were successfully applied: decisions     *)
(* that threw or were skipped without effect are not counted.               *)
C18_AppliedCountsSuccesses ==
    (probe.fn = "applyChanges" /\ probe.out # Pending) =>
        LET batch == probe.changes.notesChanges \o probe.changes.associationChanges
        IN  /\ \A i \in 1..Len(batch) :
                    SuccessfullyApplied(InitialDb, batch[i]) => EffectVisible(db, batch[i])
            /\ probe.out.applied =
                   Cardinality({i \in 1..Len(batch) : SuccessfullyApplied(InitialDb, batch[i])})


(* C19: when at least one decision failed to apply in the merge phase of a  *)
(* real run, the run's sync-log entry ends with status partial, not         *)
(* success, and its error list records the failure.                         *)
C19_MergeFailureMakesPartial ==
    [][(phase = "pushing" /\ phase' = "done" /\ ~dryRun
            /\ mergeResult.applied < Len(Decisions)) =>
          /\ db'.syncLog[syncId].status = "partial"
          /\ db'.syncLog[syncId].errors # <<>>]_vars


(* how often x occurs in the sequence *)
Occurrences(seq, x) == Cardinality({i \in 1..Len(seq) : seq[i] = x})

(* the error records of a list in a phase *)
ErrorsOf(listName, inPhase) ==
    Cardinality({i \in 1..Len(stats.errors) :
                    /\ "list" \in DOMAIN stats.errors[i]
                    /\ stats.errors[i].list = listName
                    /\ stats.errors[i].phase = inPhase})

Scraped(listName) == \E i \in 1..Len(remoteState) : remoteState[i][1] = listName

(* every decision of the sequence is among the collected ones *)
Collected(decisions, collected) ==
    \A i \in 1..Len(decisions) : \E j \in 1..Len(collected) : collected[j] = decisions[i]

(* C20: an error on one list in pulling or detecting does not stop the      *)
(* other lists of that phase: every list name the scraper returned is       *)
(* attempted exactly once in pulling, every list that was pulled is handed  *)
(* to detection, and a failing list adds exactly one error record naming    *)
(* the list and the phase.                                                  *)
C20_PerListErrors ==
    /\ phase = "pull_validation" =>
            \A i \in 1..Len(listNames) :
                LET name == listNames[i]
                IN  /\ Scraped(name) \/ Occurrences(failedLists, name) = 1
                    /\ Occurrences(failedLists, name) <= 1
                    /\ Occurrences([k \in 1..Len(remoteState) |-> remoteState[k][1]], name) <= 1
                    /\ ErrorsOf(name, "pull") = Occurrences(failedLists, name)
    /\ DetectionFinished =>
            \A i \in 1..Len(remoteState) :
                LET name == remoteState[i][1]
                    r == detectChangesForList(db, name, remoteState[i][2])
                IN  IF r.threw
                    THEN ErrorsOf(name, "detect") = 1
                    ELSE /\ ErrorsOf(name, "detect") = 0
                         /\ Collected(r.changes.notesChanges, allChanges.notesChanges)
                         /\ Collected(r.changes.associationChanges,
                                      allChanges.associationChanges)

(* detection failed for the first list and the decisions of the second were collected *)
C20_Witness ==
    /\ DetectionFinished
    /\ Len(remoteState) = 2
    /\ detectChangesForList(db, remoteState[1][1], remoteState[1][2]).threw
    /\ ErrorsOf(remoteState[1][1], "detect") = 1
    /\ Len(Decisions) > 0


----------------------------------------------------------------------------
(* Run properties *)

(* a list of the remote snapshot has no row in the lists table *)
HasMissingList ==
    \E i \in 1..Len(remoteState) : findByName(db, remoteState[i][1]) = 0

InRun == phase \in {"detecting", "merging", "pushing"}

(* C21: when a pulled list has no local list the run is not aborted: the    *)
(* decisions of the other lists are all handed to the Merger, the run       *)
(* returns without an exception and its sync-log entry ends partial; a run  *)
(* that completes with no error record ends success.                        *)
C21_MissingListIsPartial ==
    /\ [](InRun /\ HasMissingList => ~thrown)
    /\ [](DetectionFinished /\ HasMissingList =>
               \A i \in 1..Len(remoteState) :
                  LET r == detectChangesForList(db, remoteState[i][1], remoteState[i][2])
                  IN  ~r.threw =>
                        /\ Collected(r.changes.notesChanges, allChanges.notesChanges)
                        /\ Collected(r.changes.associationChanges,
                                     allChanges.associationChanges))
    /\ [](phase = "pushing" /\ HasMissingList /\ ~dryRun => cursor = Len(Decisions) + 1)
    /\ [][InRun /\ HasMissingList =>
            /\ phase' # "aborted"
            /\ ~thrown'
            /\ phase' = "done" => db'.syncLog[syncId].status = "partial"]_vars
    /\ [][phase = "pushing" /\ phase' = "done" /\ stats'.errors = <<>> =>
            db'.syncLog[syncId].status = "success"]_vars

(* a run with a list unknown locally has applied a decision of the other list and
   returned with status partial *)
C21_Witness ==
    /\ phase = "done"
    /\ ~thrown
    /\ ~dryRun
    /\ mergeResult.applied > 0
    /\ \E i \in 1..Len(stats.errors) :
          stats.errors[i] = [list |-> "C", phase |-> "detect", error |-> "List not found"]
    /\ db.syncLog[syncId].status = "partial"


(* the phases of a run in their order; the run is in its PULL phase from the moment
   the sync-log entry exists, getListNames included *)
PhaseRank(ph) ==
    CASE ph \in {"starting", "pulling"} -> 1
      [] ph = "pull_validation" -> 2
      [] ph = "detecting" -> 3
      [] ph = "merging" -> 4
      [] ph = "pushing" -> 5
      [] ph = "done" -> 6
      [] OTHER -> 0

Running == phase \notin {"idle", "done", "aborted"}

(* C22: a run goes through pulling, pull validation, detecting, merging,     *)
(* pushing, done in this order and never back; Local, Base and the Queue     *)
(* are not written before every list's pull outcome is known; and a run      *)
(* ends aborted (log status failed, exception to the caller) from pull       *)
(* validation only.                                                          *)
C22_PhaseOrder ==
    [][Running =>
         /\ phase' \notin {phase, "aborted"} =>
                \/ PhaseRank(phase') = PhaseRank(phase) + 1
                \/ PhaseRank(phase') = PhaseRank(phase) /\ phase = "starting"
         /\ PhaseRank(phase) <= 2 => Stores(db') = Stores(db)
         /\ phase' = "aborted" =>
                /\ phase = "pull_validation"
                /\ thrown'
                /\ db'.syncLog[syncId].status = "failed"
         /\ (thrown' \/ db'.syncLog[syncId].status = "failed") => phase' = "aborted"]_vars


(* C23: every run creates exactly one sync-log entry, with status             *)
(* in_progress; when the run has returned or thrown the entry has status      *)
(* success, partial or failed and holds every error record collected in the   *)
(* run; the entry is updated once when the run ends normally and at most once *)
(* more on a fatal abort; no entry is ever deleted.                           *)
C23_SyncLogEntries ==
    /\ Len(db.syncLog) = runs
    /\ \A i \in 1..Len(db.syncLog) :
          LET entry == db.syncLog[i]
          IN  /\ entry.id = i
              /\ IF Running /\ syncId = i
                 THEN entry.status = "in_progress" /\ entry.updates = 0
                 ELSE /\ entry.status \in {"success", "partial", "failed"}
                      /\ entry.updates \in {1, 2}
                      /\ entry.updates = 2 => entry.status = "failed"
    /\ phase \in {"done", "aborted"} =>
          /\ db.syncLog[syncId].errors = stats.errors
          /\ db.syncLog[syncId].status = stats.status
          /\ thrown <=> db.syncLog[syncId].status = "failed"

(* an aborted run's entry was written twice and is followed by the entry of a run
   that ended with an error record *)
C23_Witness ==
    /\ phase = "done"
    /\ Len(db.syncLog) = 2
    /\ db.syncLog[1].updates = 2
    /\ db.syncLog[2].updates = 1
    /\ db.syncLog[1].errors # <<>>


(* the Base row a decision is about, and the value the Merger gives it *)
BaseKey(c) ==
    IF c.entity = "place_notes"
    THEN EntityKey("place_notes", PlaceNotesId(c.placeId))
    ELSE EntityKey("place_list_association", PlaceListId(c.placeId, c.listId))

BaseTarget(c) ==
    IF c.entity = "place_notes"
    THEN hashNotes(IF c.resolution = "take_remote" THEN c.remoteValue ELSE c.localValue)
    ELSE IF c.resolution \in {"push_add", "add_locally"}
              \/ (c.resolution = "local_wins" /\ c.existsLocal)
         THEN "exists" ELSE "not_exists"

(* every Base row but this one is as before *)
BaseSameExcept(key) ==
    /\ DOMAIN db'.lastRemoteState \ {key} = DOMAIN db.lastRemoteState \ {key}
    /\ \A k \in DOMAIN db.lastRemoteState \ {key} :
          db'.lastRemoteState[k] = db.lastRemoteState[k]

(* C24: change detection writes to no store; within a run Base is written    *)
(* only while the Merger applies a decision, and one Base row, the one of    *)
(* the decision, is written for each applied decision.                       *)
C24_DetectorFrame ==
    [][/\ phase = "detecting" => Stores(db') = Stores(db)
       /\ (phase # "idle" /\ db'.lastRemoteState # db.lastRemoteState) =>
              (phase = "merging" /\ ~dryRun /\ cursor' = cursor + 1)
       /\ (phase = "merging" /\ ~dryRun /\ cursor' = cursor + 1) =>
              LET c == change'.decision
              IN  IF change'.threw
                  THEN db'.lastRemoteState = db.lastRemoteState
                  ELSE /\ mergeResult'.applied = mergeResult.applied + 1
                       /\ BaseKey(c) \in DOMAIN db'.lastRemoteState
                       /\ db'.lastRemoteState[BaseKey(c)] = BaseTarget(c)
                       /\ BaseSameExcept(BaseKey(c))]_vars

(* two decisions were applied in one run and Base holds the row of each *)
C24_Witness ==
    /\ phase = "pushing" /\ ~dryRun
    /\ mergeResult.applied = 2
    /\ Cardinality(DOMAIN db.lastRemoteState) = 2


NotesChangeApplied == probe.fn = "applyNotesChange" /\ probe.out # Pending

(* C25: applying a notes decision of any of the four resolutions leaves the  *)
(* pending operation queue as it was; keep_local, local_wins and             *)
(* already_synced leave the local notes of the place as they were too.       *)
C25_NotesMergeFrame ==
    NotesChangeApplied =>
        /\ db.pendingOperations = probe.before.pendingOperations
        /\ probe.change.resolution # "take_remote" => db.places = probe.before.places

(* a conflict was resolved for the local notes while an operation was waiting *)
C25_Witness ==
    /\ NotesChangeApplied
    /\ probe.change.resolution = "local_wins"
    /\ ~probe.out.threw
    /\ db.lastRemoteState # probe.before.lastRemoteState
    /\ Len(db.pendingOperations) = 1
    /\ db.places[1].notes = "b"


(* the resolution with the roles of adding and removing exchanged *)
MirrorResolution(resolution) ==
    CASE resolution = "push_add" -> "push_remove"
      [] resolution = "push_remove" -> "push_add"
      [] resolution = "add_locally" -> "remove_locally"
      [] resolution = "remove_locally" -> "add_locally"
      [] OTHER -> resolution

(* the decision of the call with existsLocal, existsRemote and existedInBase negated *)
MirrorCall ==
    detectPlaceListChange(
        DbWithBase("place_list_association", PlaceListId(probe.placeId, probe.listId),
                   IF getPlaceListAssociation(db, probe.placeId, probe.listId) = "exists"
                   THEN "not_exists" ELSE "exists"),
        probe.placeId, probe.listId, ~probe.existsLocal, ~probe.existsRemote)

(* C26: membership detection is symmetric under negating existedInBase,      *)
(* existsLocal and existsRemote together: (false, true, false) gives         *)
(* push_add and (true, false, true) gives push_remove, (false, false, true)  *)
(* gives add_locally and (true, true, false) gives remove_locally, and the   *)
(* two decisions of a mirrored pair have the same fields, the same place and *)
(* list ids and each of the three flags negated.                             *)
C26_MembershipSymmetry ==
    ListCallDone =>
        LET out == probe.out
            mirror == MirrorCall
            existedInBase == getPlaceListAssociation(db, probe.placeId, probe.listId) = "exists"
        IN  /\ (~existedInBase /\ probe.existsLocal /\ ~probe.existsRemote)
                    => Resolution(out) = "push_add"
            /\ (existedInBase /\ ~probe.existsLocal /\ probe.existsRemote)
                    => Resolution(out) = "push_remove"
            /\ (~existedInBase /\ ~probe.existsLocal /\ probe.existsRemote)
                    => Resolution(out) = "add_locally"
            /\ (existedInBase /\ probe.existsLocal /\ ~probe.existsRemote)
                    => Resolution(out) = "remove_locally"
            /\ (out = NoDecision) <=> (mirror = NoDecision)
            /\ out # NoDecision =>
                  /\ DOMAIN mirror = DOMAIN out
                  /\ mirror.entity = out.entity
                  /\ mirror.placeId = out.placeId /\ mirror.listId = out.listId
                  /\ mirror.existsLocal = ~out.existsLocal
                  /\ mirror.existsRemote = ~out.existsRemote
                  /\ mirror.existedInBase = ~out.existedInBase
                  /\ mirror.resolution = MirrorResolution(out.resolution)

(* the call answered push_remove and its mirror image answers push_add *)
C26_Witness ==
    /\ ListCallDone
    /\ Resolution(probe.out) = "push_remove"
    /\ Resolution(MirrorCall) = "push_add"


(* C27: after any sequence of place upserts and updateNotes calls, those of  *)
(* take_remote merges included, the notes_hash of every place is hashNotes   *)
(* of its notes.                                                             *)
C27_NotesHashInSync ==
    \A id \in DOMAIN db.places : db.places[id].notes_hash = hashNotes(db.places[id].notes)

(* two places, one with notes taken from the remote side and one with empty notes *)
C27_Witness ==
    /\ Cardinality(DOMAIN db.places) = 2
    /\ \E id \in DOMAIN db.places :
          /\ db.places[id].notes = "a"
          /\ getPlaceNotes(db, id) = hashNotes("a")
    /\ \E id \in DOMAIN db.places : db.places[id].notes = ""


(* C28: after any sequence of list upserts, by Google list id with a name or *)
(* by name only, no two lists have the same name.                            *)
C28_ListNamesUnique ==
    \A i, j \in DOMAIN db.lists : i # j => db.lists[i].name # db.lists[j].name


(* the operations still waiting in the queue for this pair *)
QueuedFor(d, placeId, listId) ==
    {i \in 1..Len(d.pendingOperations) :
        /\ d.pendingOperations[i].status = "pending"
        /\ JSONParse(d.pendingOperations[i].payload) = [placeId |-> placeId, listId |-> listId]}

(* the type of the last write-back waiting for the pair, "none" when there is none *)
LastQueued(d, placeId, listId) ==
    IF QueuedFor(d, placeId, listId) = {} THEN "none"
    ELSE d.pendingOperations[CHOOSE i \in QueuedFor(d, placeId, listId) :
                                \A j \in QueuedFor(d, placeId, listId) : j <= i].operation_type

(* the user removed the place from the list: the row is kept with deleted_locally *)
DeletedByUser(d, placeId, listId) ==
    /\ <<placeId, listId>> \in DOMAIN d.placeLists
    /\ d.placeLists[<<placeId, listId>>].deleted_locally

(* C29: a local membership change survives later syncs while its write-back  *)
(* is queued: in a deep sync whose snapshot of the list still lacks a place  *)
(* whose local add was resolved as push_add, the place stays a local member  *)
(* unless the user removed it; and a place whose local removal was resolved  *)
(* as push_remove is not made a member again while the snapshot has it.      *)
C29_QueuedChangeSurvives ==
    (syncType = "deep" /\ phase \in {"merging", "pushing"}) =>
        \A i \in 1..Len(remoteState) :
            LET l == findByName(db, remoteState[i][1])
                remotePlaces == remoteState[i][2]
            IN  l # 0 =>
                  \A p \in DOMAIN db.places :
                     /\ (/\ LastQueued(db, p, l) = "add_place_to_list"
                         /\ ~InRemote(remotePlaces, db.places[p].google_place_id)
                         /\ ~DeletedByUser(db, p, l))
                            => IsMember(db, p, l)
                     /\ (/\ LastQueued(db, p, l) = "remove_place_from_list"
                         /\ InRemote(remotePlaces, db.places[p].google_place_id))
                            => ~IsMember(db, p, l)


(* C30: local notes that a sync kept (keep_local, or local_wins in a         *)
(* conflict) are not overwritten by the remote value they were kept against: *)
(* in every later sync with local and remote notes unchanged since, the      *)
(* local notes of the place are still the edited ones.                       *)
C30_KeptEditStays ==
    (probe.fn = "syncRounds" /\ probe.kept) => db.places[1].notes = probe.edited


----------------------------------------------------------------------------
(* A deep sync of list "A" that stops between the two statements of a push
   branch of applyAssociationChange, followed by a whole one *)

IsPush(c) == c.resolution \in {"push_add", "push_remove"}

(* the first statement of the push_add and push_remove branches *)
applyAssociationChange_enqueued(d, c) ==
    addPendingOperation(d, IF c.resolution = "push_add" THEN "add_place_to_list"
                                                        ELSE "remove_place_from_list",
                        [placeId |-> c.placeId, listId |-> c.listId])

DecisionsOf(d, remotePlaces) ==
    LET changes == detectChangesForList(d, ListName[1], remotePlaces).changes
    IN  changes.notesChanges \o changes.associationChanges

InitInterrupted ==
    /\ \E row \in AssociationRows, b \in BaseStates, l \in NotesValues, rp \in Snapshots :
          /\ db = updateNotes(DbWithAssociation(1, 1, row, b), 1, l)
          /\ probe = [fn |-> "interrupted", remotePlaces |-> rp, stage |-> "start",
                      pushed |-> NULL,
                      whole |-> ApplyLoop([db |-> db, applied |-> 0, conflicts |-> 0],
                                          DecisionsOf(db, rp)).db]
    /\ IdleRun

(* the decisions before the i-th are applied, the i-th enqueues its operation,
   then the process is gone *)
Interrupt ==
    /\ probe.fn = "interrupted" /\ probe.stage = "start"
    /\ LET decisions == DecisionsOf(db, probe.remotePlaces)
       IN  \E i \in 1..Len(decisions) :
              /\ decisions[i].entity = "place_list"
              /\ IsPush(decisions[i])
              /\ db' = applyAssociationChange_enqueued(
                          ApplyLoop([db |-> db, applied |-> 0, conflicts |-> 0],
                                    SubSeq(decisions, 1, i - 1)).db,
                          decisions[i])
              /\ probe' = [probe EXCEPT !.stage = "interrupted",
                                        !.pushed = decisions[i]]
    /\ UNCHANGED <<runVars, edits>>

SyncAfterInterrupt ==
    /\ probe.fn = "interrupted" /\ probe.stage = "interrupted"
    /\ db' = ApplyLoop([db |-> db, applied |-> 0, conflicts |-> 0],
                       DecisionsOf(db, probe.remotePlaces)).db
    /\ probe' = [probe EXCEPT !.stage = "done"]
    /\ UNCHANGED <<runVars, edits>>

NextInterrupted == Interrupt \/ SyncAfterInterrupt

SpecInterrupted == InitInterrupted /\ [][NextInterrupted]_vars

----------------------------------------------------------------------------
(* The queue under updateOperationStatus and retryOperation *)

InitStatus ==
    /\ db = InitialDb
    /\ probe = [fn |-> "status", settled |-> {}]
    /\ IdleRun

EnqueueOperation(operationType) ==
    /\ probe.fn = "status"
    /\ Len(db.pendingOperations) < MaxOps
    /\ db' = addPendingOperation(db, operationType, [placeId |-> 1, listId |-> 1])
    /\ UNCHANGED <<probe, runVars, edits>>

(* settled: the operations whose last updateOperationStatus call wrote
   'completed' or 'failed' *)
UpdateOperationStatus(operationId, status) ==
    /\ probe.fn = "status"
    /\ operationId \in DOMAIN db.pendingOperations
    /\ db' = updateOperationStatus(db, operationId, status)
    /\ probe' = [probe EXCEPT !.settled = IF status \in {"completed", "failed"}
                                          THEN @ \cup {operationId}
                                          ELSE @ \ {operationId}]
    /\ UNCHANGED <<runVars, edits>>

RetryAfterStatus(operationId) ==
    /\ probe.fn = "status"
    /\ operationId \in DOMAIN db.pendingOperations
    /\ db.pendingOperations[operationId].retry_count < MaxRetryCount
    /\ db' = retryOperation(db, operationId)
    /\ UNCHANGED <<probe, runVars, edits>>

NextStatus ==
    \/ \E t \in OperationTypes : EnqueueOperation(t)
    \/ \E id \in 1..MaxOps, st \in OperationStatuses : UpdateOperationStatus(id, st)
    \/ \E id \in 1..MaxOps : RetryAfterStatus(id)

SpecStatus == InitStatus /\ [][NextStatus]_vars

----------------------------------------------------------------------------
(* A Merger whose conflict strategy is set, then a notes conflict is applied *)

ConflictStrategies == {"local_wins", "remote_wins", "take_remote"}

(* new Merger(db): conflictStrategy is 'local_wins'; the decision is the one the
   Detector returns for local, remote and Base notes that differ pairwise *)
InitStrategy ==
    /\ \E l \in NotesValues, r \in NotesValues, b \in BaseHashes :
          /\ db = updateNotes(DbWithBase("place_notes", PlaceNotesId(1), b), 1, l)
          /\ detectPlaceNotesChange(db, 1, l, r) # NoDecision
          /\ detectPlaceNotesChange(db, 1, l, r).type = "conflict"
          /\ probe = [fn |-> "strategy", conflictStrategy |-> "local_wins",
                      change |-> detectPlaceNotesChange(db, 1, l, r), out |-> Pending]
    /\ IdleRun

(* Merger.setConflictStrategy *)
setConflictStrategy(strategy) ==
    /\ probe.fn = "strategy" /\ probe.out = Pending
    /\ probe' = [probe EXCEPT !.conflictStrategy = strategy]
    /\ UNCHANGED <<db, runVars, edits>>

(* Merger.applyNotesChange on the conflict: the switch reads change.resolution,
   this.conflictStrategy is read nowhere *)
ApplyConflict ==
    /\ probe.fn = "strategy" /\ probe.out = Pending
    /\ LET r == applyNotesChange(db, probe.change)
       IN  /\ db' = r.db
           /\ probe' = [probe EXCEPT !.out = [threw |-> r.threw]]
    /\ UNCHANGED <<runVars, edits>>

NextStrategy ==
    \/ \E strategy \in ConflictStrategies : setConflictStrategy(strategy)
    \/ ApplyConflict

SpecStrategy == InitStrategy /\ [][NextStrategy]_vars

----------------------------------------------------------------------------
(* GoogleMapsScraper.scrapePlacesFromCurrentList: the scroll loop over a list
   page that shows the ids 1..loaded and may show more after each scroll *)

MaxLoaded == 52
DeepMaxScrollAttempts == 50

(* limit ? Math.ceil(limit / 10) : 50, a missing limit being 0 *)
maxScrollAttempts(limit) ==
    IF limit # 0 THEN (limit + 9) \div 10 ELSE DeepMaxScrollAttempts

(* the for loop over newPlaces: an unseen id is pushed, the loop breaks at the limit *)
RECURSIVE AddNewPlaces(_, _, _)
AddNewPlaces(places, newPlaces, limit) ==
    IF newPlaces = <<>> THEN places
    ELSE IF \E i \in 1..Len(places) : places[i] = Head(newPlaces)
    THEN AddNewPlaces(places, Tail(newPlaces), limit)
    ELSE LET pushed == Append(places, Head(newPlaces))
         IN  IF limit # 0 /\ Len(pushed) >= limit THEN pushed
             ELSE AddNewPlaces(pushed, Tail(newPlaces), limit)

InitScrape ==
    /\ db = InitialDb
    /\ \E limit \in {0, QuickLimit}, loaded \in {0, 1, QuickLimit} :
          probe = [fn |-> "scrape", limit |-> limit, loaded |-> loaded, places |-> <<>>,
                   scrollAttempts |-> 0, idle |-> 0, pc |-> "loop"]
    /\ IdleRun

(* one iteration of the while loop that does not break; the scroll makes the page
   show `more` further places. idle counts the scrolls in a row that showed none *)
ScrollIteration(more) ==
    /\ probe.fn = "scrape" /\ probe.pc = "loop"
    /\ probe.scrollAttempts < maxScrollAttempts(probe.limit)
    /\ probe.loaded + more <= MaxLoaded
    /\ LET newPlaces == [i \in 1..probe.loaded |-> i]
           places == AddNewPlaces(probe.places, newPlaces, probe.limit)
           previousCount == Len(places)
       IN  /\ ~(probe.limit # 0 /\ Len(places) >= probe.limit)
           /\ probe' = [probe EXCEPT
                           !.places = places,
                           !.loaded = @ + more,
                           !.scrollAttempts = IF Len(places) = previousCount
                                              THEN @ + 1 ELSE 0,
                           !.idle = IF more = 0 THEN @ + 1 ELSE 0]
    /\ UNCHANGED <<db, runVars, edits>>

(* the iteration in which places.length reaches the limit: break *)
LimitReached ==
    /\ probe.fn = "scrape" /\ probe.pc = "loop"
    /\ probe.scrollAttempts < maxScrollAttempts(probe.limit)
    /\ LET places == AddNewPlaces(probe.places, [i \in 1..probe.loaded |-> i], probe.limit)
       IN  /\ probe.limit # 0 /\ Len(places) >= probe.limit
           /\ probe' = [probe EXCEPT !.places = places, !.pc = "returned"]
    /\ UNCHANGED <<db, runVars, edits>>

(* the while condition fails *)
ScrollAttemptsExhausted ==
    /\ probe.fn = "scrape" /\ probe.pc = "loop"
    /\ probe.scrollAttempts >= maxScrollAttempts(probe.limit)
    /\ probe' = [probe EXCEPT !.pc = "returned"]
    /\ UNCHANGED <<db, runVars, edits>>

NextScrape ==
    \/ \E more \in 0..1 : ScrollIteration(more)
    \/ LimitReached
    \/ ScrollAttemptsExhausted

SpecScrape == InitScrape /\ [][NextScrape]_vars

----------------------------------------------------------------------------
(* Convergence properties *)

(* C31: after a sync that is no dry run and in which every decision was      *)
(* applied, Base membership of every pair the run examined on which local    *)
(* and remote membership agree is 'exists' exactly when the place is a       *)
(* member; a pair present on both sides without a Base entry gets 'exists'.  *)
C31_BaseAgreesAfterSync ==
    (phase = "pushing" /\ ~dryRun /\ mergeResult.applied = Len(Decisions)) =>
        \A i \in 1..Len(remoteState) :
            LET l == findByName(db, remoteState[i][1])
                remotePlaces == remoteState[i][2]
            IN  l # 0 =>
                  \A p \in DOMAIN db.places :
                     LET local == IsMember(db, p, l)
                         remote == InRemote(remotePlaces, db.places[p].google_place_id)
                     IN  (local = remote /\ (local \/ \E r \in {"remove_locally", "push_remove"} :
                                                        HasAssocDecision(p, l, r)))
                            => (getPlaceListAssociation(db, p, l) = "exists") = local


(* the decisions the next deep sync would produce *)
NextDecisions ==
    LET c == detectChangesForList(db, ListName[1], probe.remotePlaces).changes
    IN  c.notesChanges \o c.associationChanges

(* C32: with the snapshot fixed and no local edit between runs, repeated     *)
(* deep syncs reach a run that produces no decision, after which no run      *)
(* produces one and the queue no longer grows: here, after MaxRounds runs    *)
(* the next run has nothing to decide.                                       *)
C32_SyncsConverge ==
    (probe.fn = "deepRounds" /\ probe.rounds = MaxRounds) => NextDecisions = <<>>


(* C33: a decision is applied atomically: when applying it throws, it has    *)
(* changed neither Local nor Base nor the queue; a take_remote does not      *)
(* overwrite the local notes without Base being updated, and a push decision *)
(* does not enqueue without Base being updated.                              *)
C33_DecisionAtomic ==
    [][(phase = "merging" /\ ~dryRun /\ cursor' = cursor + 1 /\ change'.threw)
            => Stores(db') = Stores(db)]_vars


(* the notes value a decision makes the agreed one *)
MergedValue(c) == IF c.resolution = "take_remote" THEN c.remoteValue ELSE c.localValue

(* C34: for every notes value (absent, empty, text) the fingerprint the      *)
(* Merger stores in Base, hashNotes, is the fingerprint the Detector         *)
(* computes, hash; a value just merged equals its Base fingerprint at the    *)
(* next detection.                                                           *)
C34_SameFingerprint ==
    probe.fn = "applyNotesChange" =>
        /\ hashNotes(MergedValue(probe.change)) = hash(MergedValue(probe.change))
        /\ (probe.out # Pending /\ ~probe.out.threw /\ probe.change.placeId \in DOMAIN db.places)
              => getPlaceNotes(db, probe.change.placeId) = hash(MergedValue(probe.change))


OperationsOf(d) ==
    {<<d.pendingOperations[i].operation_type, d.pendingOperations[i].payload>> :
        i \in 1..Len(d.pendingOperations)}

C36_OneNotesDecisionPerPlace ==
    /\ \A i, j \in 1..Len(allChanges.notesChanges) :
          allChanges.notesChanges[i].placeId = allChanges.notesChanges[j].placeId => i = j
    /\ \A i, j \in 1..Len(allChanges.conflicts) :
          allChanges.conflicts[i].placeId = allChanges.conflicts[j].placeId => i = j

(* C37: an operation that updateOperationStatus set to completed or failed   *)
(* is never put back to pending by a later retryOperation call, whatever     *)
(* its retry_count.                                                          *)
C37_SettledStaysSettled ==
    probe.fn = "status" =>
        \A id \in probe.settled : db.pendingOperations[id].status # "pending"

MembershipResolutions == {"push_add", "push_remove", "add_locally", "remove_locally", "none"}

(* C38: detectPlaceListChange never returns a decision of type conflict      *)
(* (resolution local_wins): for all eight flag combinations the result is    *)
(* push_add, push_remove, add_locally, remove_locally or no decision, so     *)
(* the decisions of a list hold no membership conflict.                      *)
C38_NoMembershipConflict ==
    /\ ListCallDone =>
          /\ Resolution(probe.out) \in MembershipResolutions
          /\ probe.out # NoDecision => probe.out.type # "conflict"
    /\ (probe.fn = "detectChangesForList" /\ probe.out # Pending /\ ~probe.out.threw) =>
          /\ \A i \in 1..Len(probe.out.changes.associationChanges) :
                /\ probe.out.changes.associationChanges[i].resolution
                      \in MembershipResolutions \ {"none"}
                /\ probe.out.changes.associationChanges[i].type # "conflict"
          /\ \A i \in 1..Len(probe.out.changes.conflicts) :
                probe.out.changes.conflicts[i].entity = "place_notes"

C38_Witness ==
    /\ ListCallDone
    /\ probe.existsLocal /\ ~probe.existsRemote
    /\ getPlaceListAssociation(db, probe.placeId, probe.listId) = "exists"
    /\ probe.out.resolution = "remove_locally"

(* C39: the resolution applied to a conflict follows the Merger's configured *)
(* conflict strategy: local_wins by default (the local notes stay), and      *)
(* after setConflictStrategy selected another strategy the conflict is       *)
(* resolved by that strategy (the remote notes are taken), not local_wins.   *)
C39_StrategyDecidesConflict ==
    (probe.fn = "strategy" /\ probe.out # Pending) =>
        db.places[1].notes = IF probe.conflictStrategy = "local_wins"
                             THEN probe.change.localValue
                             ELSE probe.change.remoteValue

(* C40: in scrapePlacesFromCurrentList the no-progress counter is reset to   *)
(* zero whenever a scroll yields new places, so it counts only the scrolls   *)
(* in a row that yielded none, and a scrape without a limit stops only       *)
(* after maxScrollAttempts such scrolls in a row.                            *)
C40_ResetOnProgress ==
    probe.fn = "scrape" =>
        /\ probe.scrollAttempts <= probe.idle
        /\ (probe.pc = "returned" /\ probe.limit = 0) =>
              probe.idle >= maxScrollAttempts(probe.limit)

====
